---- MODULE Spec2Model ----
(***************************************************************************)
(* A model of the dynamic query-answering pipeline of the HR assistant:    *)
(* DynamicAIQueryService (src/ai_service.py), QueryRouter                  *)
(* (src/query_router.py), VectorEngine (src/vector_engine.py) and          *)
(* OfflineQueryService (src/offline_queries.py).                           *)
(*                                                                         *)
(* Text is modelled as sequences of one-character strings, so that the     *)
(* textual scans of the SQL normaliser are computed as the code computes   *)
(* them.  Indices of text are 0-based as in the source.                    *)
(***************************************************************************)
EXTENDS Integers, Sequences, FiniteSets, TLC

----------------------------------------------------------------------------
(* Text helpers: the str methods the source uses.                          *)

None == "None"

LowerLetters ==
    {"a","b","c","d","e","f","g","h","i","j","k","l","m",
     "n","o","p","q","r","s","t","u","v","w","x","y","z"}

UpperLetters == {"I","L","K","E"}

Digits == {"0","1","2","3","4","5","6","7","8","9"}

\* str.lower() of one character (the upper-case letters the texts of the model use)
LowerChar(c) ==
    CASE c = "I" -> "i"
      [] c = "L" -> "l"
      [] c = "K" -> "k"
      [] c = "E" -> "e"
      [] OTHER -> c

\* str.lower()
Lower(s) == [i \in 1..Len(s) |-> LowerChar(s[i])]

\* ch.isalnum() or ch == "_"  (also the class \w of the regular expressions)
IsNameChar(c) == c \in LowerLetters \cup UpperLetters \cup Digits \cup {"_"}

\* ch.isspace()
IsSpace(c) == c \in {" ", "\n", "\t"}

\* s[from:] starts with pat (from is 0-based)
StartsWithAt(s, pat, from) ==
    /\ from >= 0
    /\ from + Len(pat) <= Len(s)
    /\ \A k \in 1..Len(pat) : s[from + k] = pat[k]

\* str.find(pat, idx): the lowest 0-based index >= idx where pat occurs, or -1
Find(s, pat, idx) ==
    LET hits == {i \in idx..(Len(s) - Len(pat)) : StartsWithAt(s, pat, i)}
    IN  IF hits = {} THEN -1 ELSE CHOOSE i \in hits : \A j \in hits : i <= j

\* "%" in s
HasPercent(s) == \E i \in 1..Len(s) : s[i] = "%"

RECURSIVE LStrip(_)
LStrip(s) == IF s # <<>> /\ IsSpace(Head(s)) THEN LStrip(Tail(s)) ELSE s

RECURSIVE RStrip(_)
RStrip(s) ==
    IF s # <<>> /\ IsSpace(s[Len(s)]) THEN RStrip(SubSeq(s, 1, Len(s) - 1)) ELSE s

\* str.strip()
Strip(s) == RStrip(LStrip(s))

\* str.replace('%', '')
RECURSIVE StripPercent(_)
StripPercent(s) ==
    IF s = <<>> THEN <<>>
    ELSE IF Head(s) = "%" THEN StripPercent(Tail(s))
    ELSE <<Head(s)>> \o StripPercent(Tail(s))

----------------------------------------------------------------------------
(* Parameter values.  A value of a bind parameter is a string or a value   *)
(* of another JSON type; a mapping is a function from parameter names      *)
(* (texts) to values.                                                      *)

StrVal(s) == [t |-> "str", v |-> s]
IntVal == [t |-> "int", v |-> <<>>]
NoVal == [t |-> "none", v |-> <<>>]

\* isinstance(val, str)
IsStr(val) == val.t = "str"

\* bool(val) of a parameter value
TruthyVal(val) == (IsStr(val) /\ val.v # <<>>) \/ val.t = "int"

\* the empty mapping {}
EmptyMap == [p \in {} |-> NoVal]

\* an Optional[Dict]: a mapping, or None
DictVal(m) == [t |-> "dict", m |-> m]
NoneDict == [t |-> "none", m |-> EmptyMap]

\* bool(params) of an Optional[Dict]
Truthy(params) == params.t = "dict" /\ params.m # EmptyMap

\* (params or {}).get(p)
Get(params, p) == IF p \in DOMAIN params.m THEN params.m[p] ELSE NoVal

----------------------------------------------------------------------------
(* SqlNormalizer: _ensure_like_wildcards and _ensure_case_insensitive_like *)

LIKE_COLON == <<" ","l","i","k","e"," ",":">>
ILIKE_COLON == <<" ","i","l","i","k","e"," ",":">>

\* the inner while loop: the end of the run of name characters that starts at pos
RECURSIVE NameEnd(_, _)
NameEnd(sql, pos) ==
    IF pos < Len(sql) /\ IsNameChar(sql[pos + 1]) THEN NameEnd(sql, pos + 1) ELSE pos

\* the outer while loop: the names found after " like :" / " ilike :", in order
RECURSIVE ScanLikeParams(_, _, _)
ScanLikeParams(sql, s, idx) ==
    LET next_like == Find(s, LIKE_COLON, idx)
        next_ilike == Find(s, ILIKE_COLON, idx)
        candidates == {p \in {next_like, next_ilike} : p # -1}
    IN  IF candidates = {} THEN <<>>
        ELSE LET pos0 == CHOOSE p \in candidates : \A r \in candidates : p <= r
                 pos == pos0 + (IF pos0 = next_like THEN Len(LIKE_COLON)
                                                    ELSE Len(ILIKE_COLON))
                 stop == NameEnd(sql, pos)
                 name == SubSeq(sql, pos + 1, stop)
             IN  (IF name # <<>> THEN <<name>> ELSE <<>>)
                     \o ScanLikeParams(sql, s, stop)

\* the mutated wrapping rule: wraps whether or not the value carries a wildcard
WrapValueAlways(val) ==
    IF IsStr(val) THEN StrVal(<<"%">> \o Strip(val.v) \o <<"%">>) ELSE val

\* lines 538-542: the value of one LIKE parameter after the wrapping rule
WrapValue(val) ==
    IF IsStr(val) /\ ~HasPercent(Strip(val.v))
    THEN StrVal(<<"%">> \o Strip(val.v) \o <<"%">>)
    ELSE val

\* the for loop over like_params, assigning params[p] in place (params: the mapping)
RECURSIVE WrapAll(_, _)
WrapAll(like_params, params) ==
    IF like_params = <<>> THEN params
    ELSE LET p == Head(like_params)
         IN  WrapAll(Tail(like_params),
                     IF p \in DOMAIN params
                     THEN [params EXCEPT ![p] = WrapValue(params[p])]
                     ELSE params)

\* DynamicAIQueryService._ensure_like_wildcards
EnsureLikeWildcards(sql, params) ==
    IF ~Truthy(params) \/ sql = <<>> THEN params
    ELSE DictVal(WrapAll(ScanLikeParams(sql, Lower(sql), 0), params.m))

\* \b before the 0-based index i of sql, for a match that starts with a word character
BoundaryBefore(sql, i) == i = 0 \/ ~IsNameChar(sql[i])

\* \b after a match ending just before the 0-based index j
BoundaryAfter(sql, j) == j = Len(sql) \/ ~IsNameChar(sql[j + 1])

\* the mutated substitution: only the first match is replaced (count=1)
RECURSIVE SubWordFirstOnly(_, _, _, _)
SubWordFirstOnly(sql, word, repl, i) ==
    IF i >= Len(sql) THEN <<>>
    ELSE IF /\ StartsWithAt(Lower(sql), word, i)
            /\ BoundaryBefore(sql, i)
            /\ BoundaryAfter(sql, i + Len(word))
         THEN repl \o SubSeq(sql, i + Len(word) + 1, Len(sql))
         ELSE <<sql[i + 1]>> \o SubWordFirstOnly(sql, word, repl, i + 1)

\* re.sub(r"\b<word>\b", repl, sql, flags=re.IGNORECASE), scanning from index i
RECURSIVE SubWord(_, _, _, _)
SubWord(sql, word, repl, i) ==
    IF i >= Len(sql) THEN <<>>
    ELSE IF /\ StartsWithAt(Lower(sql), word, i)
            /\ BoundaryBefore(sql, i)
            /\ BoundaryAfter(sql, i + Len(word))
         THEN repl \o SubWord(sql, word, repl, i + Len(word))
         ELSE <<sql[i + 1]>> \o SubWord(sql, word, repl, i + 1)

\* DynamicAIQueryService._ensure_case_insensitive_like, for engine.dialect.name
EnsureCaseInsensitiveLike(sql, dialect) ==
    IF sql = <<>> THEN sql
    ELSE IF dialect = "sqlite"
         THEN SubWord(sql, <<"i","l","i","k","e">>, <<"L","I","K","E">>, 0)
         ELSE SubWord(sql, <<"l","i","k","e">>, <<"I","L","I","K","E">>, 0)

\* lines 902-903 (and 908-909): the dialect rewrite, then the wildcard wrapping
Normalize(sql, params, dialect) ==
    LET text == EnsureCaseInsensitiveLike(sql, dialect)
    IN  [sql |-> text, params |-> EnsureLikeWildcards(text, params)]

----------------------------------------------------------------------------
(* The relational store as the fallback resolver reads it.                 *)

Emp == {"E1", "E2", "E3"}
Proj == {"P1"}
Dept == {"D1"}

\* employees.full_name
FullName ==
    [e \in Emp |-> CASE e = "E1" -> <<"j","l">>
                     [] e = "E2" -> <<"j","a","l">>
                     [] OTHER    -> <<"k">>]

\* the parameter name the resolver looks for
MANAGER_NAME == <<"m","a","n","a","g","e","r","_","n","a","m","e">>

\* full_name LIKE :pattern ('%' any run of characters, '_' any one character)
RECURSIVE LikeMatch(_, _)
LikeMatch(pat, s) ==
    IF pat = <<>> THEN s = <<>>
    ELSE IF Head(pat) = "%"
         THEN LikeMatch(Tail(pat), s) \/ (s # <<>> /\ LikeMatch(pat, Tail(s)))
    ELSE /\ s # <<>>
         /\ (Head(pat) = "_" \/ LowerChar(Head(pat)) = LowerChar(Head(s)))
         /\ LikeMatch(Tail(pat), Tail(s))

\* the stores the model draws from: manager links, one project, one department
MgrMaps ==
    {m \in [Emp -> Emp \cup {None}] :
        /\ m["E1"] = None
        /\ m["E2"] \in {None, "E1"}
        /\ m["E3"] \in {None, "E2"}}

ProjRows ==
    {[manager_employee_id |-> i, project_manager |-> n, members |-> ms] :
        i \in {None, "E1"},
        n \in {NoVal, StrVal(FullName["E1"])},
        ms \in {{}, {"E1", "E2"}}}

DeptRows ==
    {[head_employee_id |-> h, members |-> ms] :
        h \in {None}, ms \in {{}}}

DBs ==
    {[mgr |-> m, proj |-> [p \in Proj |-> pr], dept |-> [d \in Dept |-> dr]] :
        m \in MgrMaps, pr \in ProjRows, dr \in DeptRows}

\* the department rows of the resolver alone: with a head and employees
HeadedDeptRows ==
    {[head_employee_id |-> h, members |-> ms] :
        h \in {None, "E1"}, ms \in {{}, {"E1", "E2"}}}

\* the stores the resolver alone is checked on
ResolverDBs ==
    {[mgr |-> m, proj |-> [p \in Proj |-> pr], dept |-> [d \in Dept |-> dr]] :
        m \in MgrMaps, pr \in ProjRows, dr \in HeadedDeptRows}

\* SELECT ... FROM employees WHERE full_name LIKE :manager_name
EmployeesLike(db, pattern) ==
    {e \in Emp : IsStr(pattern) /\ LikeMatch(pattern.v, FullName[e])}

\* SELECT ... FROM employees e WHERE e.manager_employee_id = :manager_id
ReportsOf(db, cand_id) == {e \in Emp : db.mgr[e] = cand_id}

----------------------------------------------------------------------------
(* FallbackResolver: the messages of the resolution chain.  A message is   *)
(* its kind, the candidate managers it names and the team it lists, as     *)
(* pairs <<context, member>> (the context is the manager, project or       *)
(* department the member is listed under).                                 *)

Msg(kind, cands, team) == [kind |-> kind, cands |-> cands, team |-> team]

\* a return value of None
NoMsg == Msg("none", {}, {})

\* documents of the vector index, as upsert_all writes them
EmployeeDoc(e) == [type |-> "employee", id |-> e]
ProjectDoc(p) == [type |-> "project", id |-> p]

\* the elements of a sequence
Range(seq) == {seq[i] : i \in 1..Len(seq)}

\* VectorEngine.search as the resolver sees it: the hits, or [] when disabled
Search(vectorsEnabled, hits) == IF vectorsEnabled THEN hits ELSE <<>>

\* the employee ids among the hits (metadata type == "employee")
EmployeeHits(hits) == {d.id : d \in {x \in Range(hits) : x.type = "employee"}}

\* the mutated semantic state: only the nearest employee candidate is asked for
\* its subordinates
SemanticReportsFallbackNearestOnly(db, storeOk, vectorsEnabled, hits) ==
    IF ~vectorsEnabled THEN NoMsg
    ELSE IF ~storeOk THEN NoMsg
    ELSE LET emp_candidates == EmployeeHits(Search(vectorsEnabled, hits))
             order == SelectSeq(hits, LAMBDA d : d.type = "employee")
             nearest == IF order = <<>> THEN {} ELSE {Head(order).id}
             reports == {pr \in nearest \X Emp : pr[2] \in ReportsOf(db, pr[1])}
         IN  IF emp_candidates = {} THEN NoMsg
             ELSE IF reports # {}
                  THEN Msg("semantic_reports", {pr[1] : pr \in reports}, reports)
             ELSE Msg("semantic_candidates", emp_candidates, {})

\* DynamicAIQueryService._semantic_reports_fallback
SemanticReportsFallback(db, storeOk, vectorsEnabled, hits) ==
    IF ~vectorsEnabled THEN NoMsg
    ELSE IF ~storeOk THEN NoMsg                      \* upsert_all raises: except -> None
    ELSE LET emp_candidates == EmployeeHits(Search(vectorsEnabled, hits))
             reports == {pr \in emp_candidates \X Emp : pr[2] \in ReportsOf(db, pr[1])}
         IN  IF emp_candidates = {} THEN NoMsg
             ELSE IF reports # {}
                  THEN Msg("semantic_reports", {pr[1] : pr \in reports}, reports)
             ELSE Msg("semantic_candidates", emp_candidates, {})

\* lines 676-703: the candidates by name, widened by the vector hits, deduplicated
UniqCandidates(db, vectorsEnabled, manager_name, hits) ==
    EmployeesLike(db, manager_name) \cup EmployeeHits(Search(vectorsEnabled, hits))

\* lines 708-770: project_members and dept_members, as the number of times a
\* member is appended to the list of a context (a project or a department)
TeamMembers(db, uniq, manager_name) ==
    [x \in (Proj \cup Dept) \X Emp |->
        IF x[1] \in Proj
        THEN \* projects by manager_employee_id, members other than the candidate
             (IF /\ db.proj[x[1]].manager_employee_id \in uniq
                 /\ x[2] \in db.proj[x[1]].members
                 /\ x[2] # db.proj[x[1]].manager_employee_id
              THEN 1 ELSE 0)
             \* projects whose project_manager text is LIKE the name, all members
             + (IF /\ IsStr(db.proj[x[1]].project_manager)
                   /\ IsStr(manager_name)
                   /\ LikeMatch(manager_name.v, db.proj[x[1]].project_manager.v)
                   /\ x[2] \in db.proj[x[1]].members
                THEN 1 ELSE 0)
        ELSE \* departments by head_employee_id, employees other than the head
             (IF /\ db.dept[x[1]].head_employee_id \in uniq
                 /\ x[2] \in db.dept[x[1]].members
                 /\ x[2] # db.dept[x[1]].head_employee_id
              THEN 1 ELSE 0)]

\* the mutated composition: the lists are written as collected
KeepDuplicates(n) == n

\* lines 777-783 and 788-793: "Deduplicate within context"
DeduplicateWithinContext(n) == IF n > 0 THEN 1 ELSE 0

\* lines 772-796: the number of times the message lists a member under a context
IndirectListing(db, vectorsEnabled, manager_name, hits) ==
    LET members == TeamMembers(db, UniqCandidates(db, vectorsEnabled, manager_name, hits),
                               manager_name)
    IN  [x \in DOMAIN members |-> DeduplicateWithinContext(members[x])]

\* DynamicAIQueryService._indirect_team_fallback
IndirectTeamFallback(db, storeOk, vectorsEnabled, manager_name, hits) ==
    IF ~storeOk THEN NoMsg                           \* err is not None -> None
    ELSE LET stripped ==
                 IF IsStr(manager_name) THEN StripPercent(manager_name.v) ELSE <<"?">>
             uniq == UniqCandidates(db, vectorsEnabled, manager_name, hits)
             listing == IndirectListing(db, vectorsEnabled, manager_name, hits)
             team == {x \in DOMAIN listing : listing[x] > 0}
         IN  IF uniq = {} /\ stripped = <<>> THEN NoMsg
             ELSE IF team # {} THEN Msg("indirect", uniq, team)
             ELSE NoMsg

\* DynamicAIQueryService._fuzzy_reports_fallback; fuzzy.rf: rapidfuzz was imported,
\* fuzzy.hits: the employees whose token_set_ratio is at least 75
FuzzyReportsFallback(db, storeOk, fuzzy) ==
    IF ~fuzzy.rf THEN NoMsg
    ELSE IF ~storeOk THEN NoMsg                      \* db.query raises: except -> None
    ELSE LET reports == {pr \in fuzzy.hits \X Emp : pr[2] \in ReportsOf(db, pr[1])}
         IN  IF fuzzy.hits = {} THEN NoMsg
             ELSE IF reports # {}
                  THEN Msg("fuzzy_reports", {pr[1] : pr \in reports}, reports)
             ELSE Msg("fuzzy_candidates", fuzzy.hits, {})

\* a result of the resolver: the message and the states it called, in order
Resolved(msg, trace) == [msg |-> msg, trace |-> trace]

\* the mutated resolver: when the later states find nothing, no message is made
AfterExactNameNoClosing(db, storeOk, vectorsEnabled, mgr_name, hits, closing) ==
    LET semantic_msg == SemanticReportsFallback(db, storeOk, vectorsEnabled, hits)
        indirect_msg == IndirectTeamFallback(db, storeOk, vectorsEnabled, mgr_name, hits)
    IN  IF semantic_msg # NoMsg
        THEN Resolved(semantic_msg, <<"exact", "semantic">>)
        ELSE Resolved(indirect_msg, <<"exact", "semantic", "indirect">>)

\* lines 584-595 and 596-609: semantic candidates, then indirect inference, then
\* the closing message of the exact-name state
AfterExactName(db, storeOk, vectorsEnabled, mgr_name, hits, closing) ==
    LET semantic_msg == SemanticReportsFallback(db, storeOk, vectorsEnabled, hits)
        indirect_msg == IndirectTeamFallback(db, storeOk, vectorsEnabled, mgr_name, hits)
    IN  IF semantic_msg # NoMsg
        THEN Resolved(semantic_msg, <<"exact", "semantic">>)
        ELSE IF indirect_msg # NoMsg
             THEN Resolved(indirect_msg, <<"exact", "semantic", "indirect">>)
        ELSE Resolved(closing, <<"exact", "semantic", "indirect">>)

\* the mutated gate: the question is not tested for "report"
FallbackReportingMessageAnyQuestion(question, sql_params, db, storeOk, vectorsEnabled, hits) ==
    IF ~Truthy(sql_params) \/ MANAGER_NAME \notin DOMAIN sql_params.m
    THEN Resolved(NoMsg, <<>>)
    ELSE LET mgr_name == sql_params.m[MANAGER_NAME]
             rows == EmployeesLike(db, mgr_name)
         IN  IF ~storeOk THEN Resolved(NoMsg, <<"exact">>)
             ELSE AfterExactName(db, storeOk, vectorsEnabled, mgr_name, hits,
                      IF rows # {} THEN Msg("exact_no_reports", rows, {})
                                   ELSE Msg("no_employee", {}, {}))

\* DynamicAIQueryService._fallback_reporting_message
FallbackReportingMessage(question, sql_params, db, storeOk, vectorsEnabled, hits) ==
    IF ~question.report THEN Resolved(NoMsg, <<>>)
    ELSE IF ~Truthy(sql_params) \/ MANAGER_NAME \notin DOMAIN sql_params.m
         THEN Resolved(NoMsg, <<>>)
    ELSE LET mgr_name == sql_params.m[MANAGER_NAME]
             rows == EmployeesLike(db, mgr_name)
         IN  IF ~storeOk THEN Resolved(NoMsg, <<"exact">>)
             ELSE AfterExactName(db, storeOk, vectorsEnabled, mgr_name, hits,
                      IF rows # {} THEN Msg("exact_no_reports", rows, {})
                                   ELSE Msg("no_employee", {}, {}))

\* lines 925-940 of answer(): the resolver, then the direct semantic and fuzzy tries
FallbackChain(question, sql_params, db, storeOk, vectorsEnabled, hits, fuzzy) ==
    LET first == FallbackReportingMessage(question, sql_params, db, storeOk,
                                          vectorsEnabled, hits)
        mgr_param == Get(sql_params, MANAGER_NAME)
        semantic_msg == SemanticReportsFallback(db, storeOk, vectorsEnabled, hits)
        fuzzy_msg == FuzzyReportsFallback(db, storeOk, fuzzy)
    IN  IF first.msg # NoMsg THEN first
        ELSE IF ~TruthyVal(mgr_param) THEN first
        ELSE IF semantic_msg # NoMsg
             THEN Resolved(semantic_msg, first.trace \o <<"semantic">>)
        ELSE Resolved(fuzzy_msg, first.trace \o <<"semantic", "fuzzy">>)

----------------------------------------------------------------------------
(* The collaborators of answer(): what the text-generation calls, the      *)
(* store and the vector index can return.                                  *)

MaxRows == 1
MaxDocs == 1
MaxHits == 2
MaxTables == 2

\* the questions: whether the text contains "report", and the branch of the
\* keyword routing of OfflineQueryService.answer it takes
Questions ==
    { [report |-> TRUE,  offline |-> "unsupported"],     \* "who reports to jl"
      [report |-> TRUE,  offline |-> "reports_to"],      \* "employees who reports to jl"
      [report |-> FALSE, offline |-> "count_employees"], \* "how many employees are active"
      [report |-> FALSE, offline |-> "unsupported"] }    \* "who works under jl"

Dialects == {"sqlite", "postgresql"}

\* settings.enable_vector_search, and VectorEngine.enabled after __init__
VectorConfigs ==
    { [settings |-> FALSE, enabled |-> FALSE],
      [settings |-> TRUE,  enabled |-> FALSE],           \* Chroma failed to initialise
      [settings |-> TRUE,  enabled |-> TRUE] }

\* a chat completion of the router: the call raises, the content does not parse,
\* or it parses to a JSON value (an object with or without "type", or another value)
RouterCompletions ==
    {[kind |-> k, dict |-> TRUE, type |-> "absent", reason |-> "absent"] :
        k \in {"raise", "unparseable"}}
    \cup {[kind |-> "json", dict |-> TRUE, type |-> t, reason |-> "llm"] :
            t \in {"sql", "semantic", "hybrid", "other", "absent"}}
    \cup {[kind |-> "json", dict |-> FALSE, type |-> "absent", reason |-> "absent"]}

Absent == [t |-> "absent", m |-> EmptyMap]
AbsentText == [t |-> "absent", v |-> <<>>]

SELECT == <<"s", "e", "l", "e", "c", "t">>

\* the texts the generator returns: two SELECT statements and one that is not
SQL_REPORTS == SELECT \o <<" ", "n", " ", "I", "L", "I", "K", "E", " ", ":">> \o MANAGER_NAME
SQL_COUNT == SELECT \o <<" ", "c", "o", "u", "n", "t">>
SQL_DELETE == <<"d", "e", "l", "e", "t", "e", " ", "n">>

\* a chat completion of the SQL generator, in the same three kinds
GenCompletions ==
    {[kind |-> k, dict |-> TRUE, sql |-> AbsentText, parameters |-> Absent] :
        k \in {"raise", "unparseable"}}
    \cup {[kind |-> "json", dict |-> FALSE, sql |-> AbsentText, parameters |-> Absent],
          [kind |-> "json", dict |-> TRUE, sql |-> StrVal(SQL_REPORTS),
           parameters |-> DictVal([p \in {MANAGER_NAME} |-> StrVal(FullName["E1"])])],
          [kind |-> "json", dict |-> TRUE, sql |-> StrVal(SQL_COUNT), parameters |-> Absent],
          [kind |-> "json", dict |-> TRUE, sql |-> StrVal(SQL_DELETE), parameters |-> Absent],
          [kind |-> "json", dict |-> TRUE, sql |-> AbsentText, parameters |-> Absent]}

ErrTexts == {"no such column"}

\* what Session.execute and the fetch of the rows do: rows, or an exception
DbOutcomes ==
    {[rows |-> n, exc |-> None] : n \in 0..MaxRows}
        \cup {[rows |-> 0, exc |-> m] : m \in ErrTexts}

\* the hits VectorEngine.search can return for a name
SearchHits ==
    LET docs == {EmployeeDoc(e) : e \in {"E1", "E2"}} \cup {ProjectDoc(p) : p \in Proj}
    IN  UNION {{h \in [1..n -> docs] : \A i, j \in 1..n : i # j => h[i] # h[j]} :
               n \in 0..MaxHits}

\* rapidfuzz imported or not, and the names it scores at least 75
FuzzyInputs ==
    {[rf |-> FALSE, hits |-> {}]} \cup {[rf |-> TRUE, hits |-> h] : h \in {{}, {"E2"}}}

----------------------------------------------------------------------------
(* The steps of the pipeline as functions of what the collaborators return *)

\* the mutated router: the failure of the completion is not caught
ClassifyUncaught(c) ==
    IF c.kind \in {"raise", "unparseable"}
    THEN [raised |-> TRUE, dict |-> FALSE, type |-> "absent", reason |-> "absent"]
    ELSE [raised |-> FALSE, dict |-> c.dict, type |-> c.type, reason |-> c.reason]

\* QueryRouter.classify: the try block returns the parsed value, the except
\* clause the default
Classify(c) ==
    IF c.kind \in {"raise", "unparseable"}
    THEN [raised |-> FALSE, dict |-> TRUE, type |-> "sql", reason |-> "fallback"]
    ELSE [raised |-> FALSE, dict |-> c.dict, type |-> c.type, reason |-> c.reason]

\* the mutated executor: the exception of the store is not caught
TryExecuteSqlUncaught(outcome) ==
    IF outcome.exc = None
    THEN [rows |-> outcome.rows, err |-> None, raised |-> FALSE]
    ELSE [rows |-> 0, err |-> outcome.exc, raised |-> TRUE]

\* DynamicAIQueryService._try_execute_sql
TryExecuteSql(outcome) ==
    IF outcome.exc = None
    THEN [rows |-> outcome.rows, err |-> None, raised |-> FALSE]
    ELSE [rows |-> 0, err |-> outcome.exc, raised |-> FALSE]

\* the k-th table of the store as the inspector reports it: its columns, and a
\* foreign key to the table before it
Table(k) ==
    [name |-> k,
     columns |-> <<"id", "ref">>,
     foreign_keys |-> IF k = 1 THEN <<>>
                      ELSE <<[constrained_columns |-> <<"ref">>,
                              referred_table |-> k - 1,
                              referred_columns |-> <<"id">>]>>]

\* insp.get_table_names() of a store with n tables
TableNames(n) == [k \in 1..n |-> k]

\* lines 410-422: the entry schema["tables"][table_name]
Describe(table_name) ==
    [name |-> table_name,
     columns |-> Table(table_name).columns,
     foreign_keys |-> Table(table_name).foreign_keys]

\* DynamicAIQueryService._schema_introspection: the loop over the table names
\* returns at the end of its first round (line 423); with no table the
\* function ends without a return statement and yields None
SchemaIntrospection(n) ==
    LET names == TableNames(n)
    IN  IF names = <<>> THEN [isNone |-> TRUE, tables |-> <<>>]
        ELSE [isNone |-> FALSE, tables |-> <<Describe(Head(names))>>]

\* OfflineQueryService.answer: the branch of the keyword routing, run on the store
OfflineAnswer(q, storeOk) ==
    IF q.offline = "unsupported"
    THEN [raised |-> FALSE, success |-> FALSE, source |-> "offline"]
    ELSE IF storeOk THEN [raised |-> FALSE, success |-> TRUE, source |-> "offline"]
    ELSE [raised |-> TRUE, success |-> FALSE, source |-> "offline"]

----------------------------------------------------------------------------
(* State.                                                                  *)

VARIABLES
    pc,               \* the position of the request in answer()
    question,         \* the question handed to answer()
    dialect,          \* engine.dialect.name
    vector,           \* settings.enable_vector_search and VectorEngine.enabled
    nTables,          \* the number of tables of the store
    completion,       \* classify(): the completion it received, until it returns
    route,            \* answer(): route, until qtype is read from it
    qtype,            \* answer(): qtype
    sql_text_used,    \* answer(): sql_text_used
    sql_params_used,  \* answer(): sql_params_used
    sql_rows,         \* answer(): len(sql_rows)
    sql_err,          \* answer(): sql_err, then sql_err2
    fixed,            \* answer(): the regenerate call and what it returned (fixed)
    semantic_docs,    \* answer(): len(semantic_docs)
    answer,           \* answer(): answer
    nexec,            \* the number of executions of generated SQL in this request
    nregen,           \* the number of calls of _regenerate_sql_with_feedback
    raisedBy,         \* the step whose exception reached the except clause
    resolved,         \* the result of the fallback chain of this request
    log,              \* the rows of the query log
    result,           \* what answer() returned
    db,               \* the resolver alone: the rows of the store it reads,
    store,            \*   whether the store answers its queries,
    hits,             \*   what VectorEngine.search returns for the name,
    fuzzy,            \*   and what the fuzzy extraction returns
    nsql, nparams,    \* the normaliser alone: the SQL text and parameters handed to it,
    nout1, nout2,     \*   its result, and the result of a second pass over that result
    npc,              \*   and its position
    entities,         \* the vector engine alone: the rows of the store upsert_all reads,
    collection,       \*   the documents of the Chroma collection,
    upserts,          \*   the calls of upsert_all, each with its local variables,
    searched,         \*   and what a call of search returned
    sched,            \* the scheduler alone: DataSyncScheduler and its sync_job runs
    fetch,            \* the upstream client alone: one get_* call and its attempts
    sync              \* the employee sync alone: payload, session and employees table

vars ==
    <<pc, question, dialect, vector, nTables, completion, route, qtype, sql_text_used,
      sql_params_used, sql_rows, sql_err, fixed, semantic_docs, answer, nexec, nregen,
      raisedBy, resolved, log, result, db, store, hits, fuzzy, nsql, nparams, nout1,
      nout2, npc, entities, collection, upserts, searched, sched, fetch, sync>>

resolverVars == <<db, store, hits, fuzzy>>
normVars == <<nsql, nparams, nout1, nout2, npc>>
engineVars == <<entities, collection, upserts, searched>>
syncVars == <<sched, fetch, sync>>
envVars == <<question, dialect, vector, nTables, resolverVars, normVars, engineVars,
             syncVars>>

NotRun == Resolved(Msg("not_run", {}, {}), <<>>)
NoRoute == [raised |-> FALSE, dict |-> FALSE, type |-> "absent", reason |-> "absent"]
NoCompletion == [kind |-> "none", dict |-> FALSE, type |-> "absent", reason |-> "absent"]
NoResult == [raised |-> FALSE, success |-> FALSE, source |-> "none"]
NoCall == [called |-> FALSE, previous_sql |-> NoVal, previous_params |-> NoneDict,
           error_message |-> None, sql |-> AbsentText, parameters |-> Absent]
Composed == Msg("composed", {}, {})

NoNorm == [sql |-> <<>>, params |-> NoneDict]

\* the resolver's inputs while the whole of answer() is modelled: the Fallback
\* step draws them
ResolverIdle ==
    /\ db = CHOOSE d \in DBs : \A e \in Emp : d.mgr[e] = None
    /\ store = TRUE
    /\ hits = <<>>
    /\ fuzzy = [rf |-> FALSE, hits |-> {}]

\* the two calls of upsert_all the model follows
Runs == {1, 2}

\* the local variables of a call of upsert_all that has not started
\* (overlapped: a batch of the call was upserted while another call was running)
NoUpsert == [pc |-> "idle", ids |-> <<>>, i |-> 0, total |-> 0, ret |-> -1, failed |-> FALSE,
             overlapped |-> FALSE]

\* no call of search yet
NoSearch == [called |-> FALSE, raised |-> FALSE, hits |-> <<>>, embed |-> "none",
             query |-> "none"]

EngineIdle ==
    /\ entities = <<>>
    /\ collection = <<>>
    /\ upserts = [r \in Runs |-> NoUpsert]
    /\ searched = NoSearch

\* DataSyncScheduler after __init__ (lines 15-17), nothing started
NoSched == [is_running |-> FALSE, job |-> FALSE, caller |-> "idle", instances |-> 0,
            starts |-> 0, fired |-> 0, skipped |-> 0, runs |-> 0]

\* no call of a get_* method yet
NoFetch == [pc |-> "idle", endpoint |-> "none", attempts |-> <<>>, response |-> -1,
            data |-> -1, records_synced |-> -1]

\* no run of sync_employees yet
NoSync == [pc |-> "idle", payload |-> <<>>, pos |-> 0, pending |-> <<>>, table |-> {},
           records_synced |-> 0, ret |-> -1, runs |-> 0]

SyncIdle == sched = NoSched /\ fetch = NoFetch /\ sync = NoSync

NormIdle ==
    /\ nsql = <<>>
    /\ nparams = NoneDict
    /\ nout1 = NoNorm
    /\ nout2 = NoNorm
    /\ npc = "idle"

\* the local variables of answer() before line 889
InitLocals ==
    /\ completion = NoCompletion
    /\ route = NoRoute
    /\ qtype = "unset"
    /\ sql_text_used = NoVal
    /\ sql_params_used = NoneDict
    /\ sql_rows = 0
    /\ sql_err = None
    /\ fixed = NoCall
    /\ semantic_docs = 0
    /\ answer = NoMsg
    /\ nexec = 0
    /\ nregen = 0
    /\ raisedBy = "none"
    /\ resolved = NotRun
    /\ log = <<>>
    /\ result = NoResult

Init ==
    /\ question \in Questions
    /\ dialect \in Dialects
    /\ vector \in VectorConfigs
    /\ nTables \in 0..MaxTables
    /\ pc = "start"
    /\ InitLocals
    /\ ResolverIdle
    /\ NormIdle
    /\ EngineIdle
    /\ SyncIdle

----------------------------------------------------------------------------
(* answer(), step by step.                                                 *)

\* the mutated pipeline: the exception is swallowed where it is raised and the
\* request goes on with what it has
RaiseSwallowed(step) == pc' = "semantic" /\ raisedBy' = step

\* an exception reaches the except clause of answer() (line 953)
Raise(step) == pc' = "except" /\ raisedBy' = step

\* lines 890-891: _schema_introspection and _schema_summary; inspect(engine) raises
\* when the store is down, _schema_summary raises on None
Introspect ==
    /\ pc = "start"
    /\ \E storeOk \in BOOLEAN :
        IF ~storeOk \/ SchemaIntrospection(nTables).isNone
        THEN Raise("introspect")
        ELSE pc' = "route" /\ UNCHANGED raisedBy
    /\ UNCHANGED <<envVars, completion, route, qtype, sql_text_used, sql_params_used,
                   sql_rows, sql_err, fixed, semantic_docs, answer, nexec, nregen,
                   resolved, log, result>>

\* line 892, inside classify (lines 31-42): the completion call and json.loads
RouterCall ==
    /\ pc = "route"
    /\ completion' \in RouterCompletions
    /\ pc' = "classify"
    /\ UNCHANGED <<envVars, route, qtype, sql_text_used, sql_params_used, sql_rows,
                   sql_err, fixed, semantic_docs, answer, nexec, nregen, raisedBy,
                   resolved, log, result>>

\* line 892: classify returns (lines 42-45)
RouterReturn ==
    /\ pc = "classify"
    /\ route' = Classify(completion)
    /\ IF Classify(completion).raised
       THEN Raise("classify")
       ELSE pc' = "routed" /\ UNCHANGED raisedBy
    /\ UNCHANGED <<envVars, completion, qtype, sql_text_used, sql_params_used, sql_rows,
                   sql_err, fixed, semantic_docs, answer, nexec, nregen, resolved, log,
                   result>>

\* where answer() goes after line 893, by qtype (lines 900 and 914)
AfterRoute(t) == IF t \in {"sql", "hybrid"} THEN "generate" ELSE "semantic"

\* line 893: qtype = route.get("type", "sql"); route and the completion are not
\* read again
TakeRoute ==
    /\ pc = "routed"
    /\ IF ~route.dict
       THEN Raise("route") /\ UNCHANGED qtype
       ELSE LET t == IF route.type = "absent" THEN "sql" ELSE route.type
            IN  qtype' = t /\ pc' = AfterRoute(t) /\ UNCHANGED raisedBy
    /\ route' = NoRoute
    /\ completion' = NoCompletion
    /\ UNCHANGED <<envVars, sql_text_used, sql_params_used, sql_rows, sql_err, fixed,
                   semantic_docs, answer, nexec, nregen, resolved, log, result>>

\* dict.get(key, default) on a field of a completion
OrDefault(field, default) == IF field.t = "absent" THEN default ELSE field

\* lines 901-903: _generate_sql, then the two normalisation calls
GenerateSql ==
    /\ pc = "generate"
    /\ \E g \in GenCompletions :
        IF g.kind # "json" \/ ~g.dict
        THEN Raise("generate") /\ UNCHANGED <<sql_text_used, sql_params_used>>
        ELSE LET n == Normalize(OrDefault(g.sql, StrVal(<<>>)).v,
                                OrDefault(g.parameters, DictVal(EmptyMap)), dialect)
             IN  /\ sql_text_used' = StrVal(n.sql)
                 /\ sql_params_used' = n.params
                 /\ pc' = "exec1"
                 /\ UNCHANGED raisedBy
    /\ UNCHANGED <<envVars, completion, route, qtype, sql_rows, sql_err, fixed,
                   semantic_docs, answer, nexec, nregen, resolved, log, result>>

\* the mutated repair: a failed execution sends the question to the router again
AfterFirstExecReclassify(err) == IF err # None THEN "route" ELSE "semantic"

\* the mutated repair: the error of the first execution is not looked at
AfterFirstExecNoRepair(err) == "semantic"

\* where answer() goes after the first execution (line 905: if sql_err)
AfterFirstExec(err) == IF err # None THEN "regenerate" ELSE "semantic"

\* the mutated repair: a second failure is repaired again
AfterSecondExecRetry(err) == IF err # None THEN "regenerate" ELSE "semantic"

\* where answer() goes after the second execution (lines 911-912 only log the error)
AfterSecondExec(err) == "semantic"

\* one call of _try_execute_sql(sql_text_used, sql_params_used): line 904 (the
\* first execution) or line 910
Execute(first) ==
    \E o \in DbOutcomes :
        LET r == TryExecuteSql(o)
        IN  /\ nexec' = nexec + 1
            /\ IF r.raised
               THEN Raise("execute") /\ UNCHANGED <<sql_rows, sql_err>>
               ELSE /\ sql_rows' = r.rows
                    /\ sql_err' = r.err
                    /\ pc' = IF first THEN AfterFirstExec(r.err)
                                      ELSE AfterSecondExec(r.err)
                    /\ UNCHANGED raisedBy

FirstExec ==
    /\ pc = "exec1"
    /\ Execute(TRUE)
    /\ UNCHANGED <<envVars, completion, route, qtype, sql_text_used, sql_params_used,
                   fixed, semantic_docs, answer, nregen, resolved, log, result>>

\* line 907: the call of _regenerate_sql_with_feedback with its four arguments
RegenerateCall ==
    /\ pc = "regenerate"
    /\ nregen' = nregen + 1
    /\ \E g \in GenCompletions :
        IF g.kind # "json"
        THEN Raise("regenerate") /\ UNCHANGED fixed
        ELSE /\ fixed' = [called |-> TRUE, previous_sql |-> sql_text_used,
                          previous_params |-> sql_params_used,
                          error_message |-> sql_err,
                          sql |-> IF g.dict THEN g.sql ELSE [t |-> "nondict", v |-> <<>>],
                          parameters |-> g.parameters]
             /\ pc' = "regenerated"
             /\ UNCHANGED raisedBy
    /\ UNCHANGED <<envVars, completion, route, qtype, sql_text_used, sql_params_used,
                   sql_rows, sql_err, semantic_docs, answer, nexec, resolved, log, result>>

\* lines 908-909: the two normalisation calls on what regenerate returned
UseRegenerated ==
    /\ pc = "regenerated"
    /\ IF fixed.sql.t = "nondict"
       THEN Raise("regenerate") /\ UNCHANGED <<sql_text_used, sql_params_used>>
       ELSE LET n == Normalize(OrDefault(fixed.sql, sql_text_used).v,
                               OrDefault(fixed.parameters, sql_params_used), dialect)
            IN  /\ sql_text_used' = StrVal(n.sql)
                /\ sql_params_used' = n.params
                /\ pc' = "exec2"
                /\ UNCHANGED raisedBy
    /\ UNCHANGED <<envVars, completion, route, qtype, sql_rows, sql_err, fixed,
                   semantic_docs, answer, nexec, nregen, resolved, log, result>>

\* line 910; fixed is not read again
SecondExec ==
    /\ pc = "exec2"
    /\ Execute(FALSE)
    /\ fixed' = NoCall
    /\ UNCHANGED <<envVars, completion, route, qtype, sql_text_used, sql_params_used,
                   semantic_docs, answer, nregen, resolved, log, result>>

\* lines 914-921: the semantic branch; upsert_all and search run inside try/except
Semantic ==
    /\ pc = "semantic"
    /\ \E storeOk \in BOOLEAN :
        IF vector.settings /\ qtype \in {"semantic", "hybrid"} /\ vector.enabled /\ storeOk
        THEN semantic_docs' \in 0..MaxDocs
        ELSE semantic_docs' = 0
    /\ pc' = "compose"
    /\ UNCHANGED <<envVars, completion, route, qtype, sql_text_used, sql_params_used,
                   sql_rows, sql_err, fixed, answer, nexec, nregen, raisedBy, resolved,
                   log, result>>

\* line 923: _compose_answer; the completion call raises or returns the text
Compose ==
    /\ pc = "compose"
    /\ \E ok \in BOOLEAN :
        IF ok THEN answer' = Composed /\ pc' = "fallback" /\ UNCHANGED raisedBy
              ELSE Raise("compose") /\ UNCHANGED answer
    /\ UNCHANGED <<envVars, completion, route, qtype, sql_text_used, sql_params_used,
                   sql_rows, sql_err, fixed, semantic_docs, nexec, nregen, resolved,
                   log, result>>

\* the mutated condition: the fallback chain runs after every composition
FallbackDueAlways == TRUE

\* line 925: the condition under which the fallback chain runs
FallbackDue == qtype \in {"sql", "hybrid"} /\ sql_rows = 0

\* the hits the index can return under a configuration
HitsOf(v) == IF v.enabled THEN SearchHits ELSE {<<>>}

\* the mutated replacement: the message is appended to the composed answer
FinalAnswerSupplemented(composed, fallback_msg) ==
    IF fallback_msg # NoMsg
    THEN Msg("supplemented", fallback_msg.cands, fallback_msg.team)
    ELSE composed

\* lines 928-940: `answer = ..._msg` under `if ..._msg:`, else answer is kept
FinalAnswer(composed, fallback_msg) ==
    IF fallback_msg # NoMsg THEN fallback_msg ELSE composed

\* lines 925-940 on given rows of the store, hits and fuzzy extraction: the
\* message of the fallback chain replaces the composed answer
FallbackStep(d, storeOk, h, f) ==
    /\ pc = "fallback"
    /\ IF FallbackDue
       THEN LET r == FallbackChain(question, sql_params_used, d, storeOk,
                                   vector.enabled, h, f)
            IN  /\ resolved' = r
                /\ answer' = FinalAnswer(answer, r.msg)
       ELSE UNCHANGED <<resolved, answer>>
    /\ pc' = "log"
    /\ UNCHANGED <<envVars, completion, route, qtype, sql_text_used, sql_params_used,
                   sql_rows, sql_err, fixed, semantic_docs, nexec, nregen, raisedBy,
                   log, result>>

\* lines 925-940 within answer(): the store, the index and the fuzzy extraction
\* answer with whatever they hold when the chain runs
Fallback ==
    \E d \in DBs, storeOk \in BOOLEAN, h \in HitsOf(vector), f \in FuzzyInputs :
        FallbackStep(d, storeOk, h, f)

\* lines 941-952: _log (its own try/except), then the returned answer object
LogAndReturn ==
    /\ pc = "log"
    /\ \E storeOk \in BOOLEAN :
        log' = IF storeOk
               THEN Append(log, [question |-> question, query_type |-> qtype,
                                 sql |-> sql_text_used, parameters |-> sql_params_used,
                                 result_count |-> sql_rows + semantic_docs,
                                 answer |-> answer])
               ELSE log
    /\ result' = [raised |-> FALSE, success |-> TRUE, source |-> "dynamic"]
    /\ pc' = "done"
    /\ UNCHANGED <<envVars, completion, route, qtype, sql_text_used, sql_params_used,
                   sql_rows, sql_err, fixed, semantic_docs, answer, nexec, nregen,
                   raisedBy, resolved>>

\* the mutated except clause: the exception is raised again
ExceptClauseReraise(q, storeOk) == [raised |-> TRUE, success |-> FALSE, source |-> "dynamic"]

\* lines 955-957: what the except clause of answer() returns
ExceptClause(q, storeOk) == OfflineAnswer(q, storeOk)

\* lines 953-957: the except clause hands the question to OfflineQueryService
Offline ==
    /\ pc = "except"
    /\ \E storeOk \in BOOLEAN : result' = ExceptClause(question, storeOk)
    /\ pc' = "done"
    /\ UNCHANGED <<envVars, completion, route, qtype, sql_text_used, sql_params_used,
                   sql_rows, sql_err, fixed, semantic_docs, answer, nexec, nregen,
                   raisedBy, resolved, log>>

Next ==
    \/ Introspect
    \/ RouterCall
    \/ RouterReturn
    \/ TakeRoute
    \/ GenerateSql
    \/ FirstExec
    \/ RegenerateCall
    \/ UseRegenerated
    \/ SecondExec
    \/ Semantic
    \/ Compose
    \/ Fallback
    \/ LogAndReturn
    \/ Offline

Spec == Init /\ [][Next]_vars

----------------------------------------------------------------------------
(* The fallback resolver alone: a request that has reached line 925 with    *)
(* zero SQL rows, over every store, index and parameter mapping below.      *)

LIKE_JL == <<"%", "j", "l", "%">>
LIKE_JO == <<"%", "j", "o", "%">>
LIKE_J_L == <<"%", "j", "%", "l", "%">>

\* the parameter mappings of the generated query
ResolverParams ==
    {NoneDict} \cup
    {DictVal([p \in {MANAGER_NAME} |-> StrVal(n)]) : n \in {LIKE_JL, LIKE_JO, LIKE_J_L}}

\* answer() at line 925 after one execution that returned no row (sql routing)
InitResolver ==
    /\ question \in Questions
    /\ dialect = "sqlite"
    /\ vector \in VectorConfigs
    /\ nTables = 1
    /\ pc = "fallback"
    /\ completion = NoCompletion
    /\ route = NoRoute
    /\ qtype = "sql"
    /\ sql_text_used = StrVal(EnsureCaseInsensitiveLike(SQL_REPORTS, "sqlite"))
    /\ sql_params_used \in ResolverParams
    /\ sql_rows = 0
    /\ sql_err = None
    /\ fixed = NoCall
    /\ semantic_docs = 0
    /\ answer = Composed
    /\ nexec = 1
    /\ nregen = 0
    /\ raisedBy = "none"
    /\ resolved = NotRun
    /\ log = <<>>
    /\ result = NoResult
    /\ db \in ResolverDBs
    /\ store \in BOOLEAN
    /\ hits \in HitsOf(vector)
    /\ fuzzy \in FuzzyInputs
    /\ NormIdle
    /\ EngineIdle
    /\ SyncIdle

\* lines 925-940 on the store, hits and fuzzy extraction of the state
ResolverStep == FallbackStep(db, store, hits, fuzzy)

NextResolver == ResolverStep

SpecResolver == InitResolver /\ [][NextResolver]_vars

----------------------------------------------------------------------------
(* The normaliser alone: lines 902-903 applied to a generated query, and    *)
(* applied again to their own result.                                       *)

MaxFrags == 2

P_NAME == <<"p">>
Q_NAME == <<"q">>

\* pieces of SQL text
Fragments ==
    { <<"n">>,                                               \* a column
      <<" ", "l", "i", "k", "e", " ", ":", "p">>,            \* " like :p"
      <<" ", "I", "L", "I", "K", "E", " ", ":", "q">>,       \* " ILIKE :q"
      <<" ", "L", "I", "K", "E", " ", " ", ":", "p">>,       \* " LIKE  :p"
      <<"\n", "i", "l", "i", "k", "e", " ", ":", "q">>,      \* "\nilike :q"
      <<" ", "l", "i", "k", "e", " ", "'", "%", "'">>,       \* " like '%'"
      <<" ", "x", "l", "i", "k", "e", " ", ":", "p">> }      \* " xlike :p"

RECURSIVE Concat(_)
Concat(seqs) == IF seqs = <<>> THEN <<>> ELSE Head(seqs) \o Concat(Tail(seqs))

\* the SQL texts: up to MaxFrags pieces in a row
NormSqls == {Concat(fs) : fs \in UNION {[1..n -> Fragments] : n \in 0..MaxFrags}}

NormValues ==
    {StrVal(<<"a">>), StrVal(<<" ", "b", " ">>), StrVal(<<" ", "a", "%">>), IntVal}

\* the parameter mappings: None, and every mapping of some of p, q to a value
NormParams ==
    {NoneDict} \cup
    {DictVal(m) : m \in UNION {[D -> NormValues] : D \in SUBSET {P_NAME, Q_NAME}}}

InitNorm ==
    /\ nsql \in NormSqls
    /\ nparams \in NormParams
    /\ dialect \in Dialects
    /\ nout1 = NoNorm
    /\ nout2 = NoNorm
    /\ npc = "generated"
    /\ question = CHOOSE q \in Questions : ~q.report /\ q.offline = "unsupported"
    /\ vector = CHOOSE v \in VectorConfigs : ~v.settings
    /\ nTables = 1
    /\ pc = "generate"
    /\ InitLocals
    /\ ResolverIdle
    /\ EngineIdle
    /\ SyncIdle

\* lines 902-903
NormalizeOnce ==
    /\ npc = "generated"
    /\ nout1' = Normalize(nsql, nparams, dialect)
    /\ npc' = "once"
    /\ UNCHANGED <<pc, question, dialect, vector, nTables, completion, route, qtype,
                   sql_text_used, sql_params_used, sql_rows, sql_err, fixed,
                   semantic_docs, answer, nexec, nregen, raisedBy, resolved, log, result,
                   resolverVars, engineVars, syncVars, nsql, nparams, nout2>>

\* lines 902-903 again, on their own result
NormalizeTwice ==
    /\ npc = "once"
    /\ nout2' = Normalize(nout1.sql, nout1.params, dialect)
    /\ npc' = "twice"
    /\ UNCHANGED <<pc, question, dialect, vector, nTables, completion, route, qtype,
                   sql_text_used, sql_params_used, sql_rows, sql_err, fixed,
                   semantic_docs, answer, nexec, nregen, raisedBy, resolved, log, result,
                   resolverVars, engineVars, syncVars, nsql, nparams, nout1>>

NextNorm == NormalizeOnce \/ NormalizeTwice

SpecNorm == InitNorm /\ [][NextNorm]_vars

----------------------------------------------------------------------------
(* Properties of answer(): execution and repair (C1, C2, C3, C10), and the  *)
(* router (C4).                                                             *)

\* C1: for one question, generated SQL is executed at most twice (the first
\* candidate and one repaired candidate), however often execution fails.
C1_AtMostTwoExecutions == nexec <= 2

\* a request whose two executions both failed has returned
C1_Witness == pc = "done" /\ nexec = 2 /\ sql_err # None /\ result.source = "dynamic"

\* the SQL path of a finished request ended with no row: one execution that
\* succeeded with zero rows, or two executions (the second failed or found nothing)
SqlPathEmpty ==
    /\ qtype \in {"sql", "hybrid"}
    /\ nexec >= 1
    /\ sql_rows = 0
    /\ (sql_err = None \/ nexec = 2)

\* C2: with routing sql or hybrid, a query that executes with zero rows and a
\* query that fails on both attempts each lead to the fallback chain being
\* invoked, and no exception escapes answer().
C2_EmptySqlPathReachesFallback ==
    (pc = "done" /\ SqlPathEmpty) => (resolved # NotRun /\ ~result.raised)

\* the text contains the word (a match of \b<word>\b in any letter case)
HasWord(sql, word) ==
    \E i \in 0..(Len(sql) - Len(word)) :
        /\ StartsWithAt(Lower(sql), word, i)
        /\ BoundaryBefore(sql, i)
        /\ BoundaryAfter(sql, i + Len(word))

\* the text-matching operators of the text have the form of the dialect
DialectForm(sql, d) ==
    IF d = "sqlite" THEN ~HasWord(sql, <<"i","l","i","k","e">>)
                    ELSE ~HasWord(sql, <<"l","i","k","e">>)

\* the text in lower case with every operator written "like"
Fold(sql) == Lower(SubWord(sql, <<"i","l","i","k","e">>, <<"l","i","k","e">>, 0))

\* every string value bound after " like :" / " ilike :" carries a wildcard
Wrapped(sql, params) ==
    \A p \in Range(ScanLikeParams(sql, Lower(sql), 0)) \cap DOMAIN params.m :
        IsStr(params.m[p]) => HasPercent(params.m[p].v)

\* one step of answer() seen by the repair protocol
C3_Step ==
    \* the first execution leads to regenerate exactly when it returned an error
    /\ pc = "exec1" => /\ pc' \in {"regenerate", "semantic"}
                       /\ (pc' = "regenerate") <=> (sql_err' # None)
    \* regenerate is called only there, once, after one execution
    /\ nregen' # nregen => /\ pc = "regenerate"
                           /\ nregen = 0 /\ nregen' = 1
                           /\ nexec = 1 /\ sql_err # None
    \* with the failing SQL text and the error text
    /\ (pc = "regenerate" /\ pc' = "regenerated") =>
            /\ fixed'.called
            /\ fixed'.previous_sql = sql_text_used
            /\ fixed'.error_message = sql_err
    \* what it returned is normalized
    /\ (pc = "regenerated" /\ pc' = "exec2") =>
            /\ Fold(sql_text_used'.v) = Fold(OrDefault(fixed.sql, sql_text_used).v)
            /\ DialectForm(sql_text_used'.v, dialect)
            /\ Wrapped(sql_text_used'.v, sql_params_used')
    \* and executed once, whatever the second execution returns
    /\ pc = "exec2" => /\ nexec = 1 /\ nexec' = 2
                       /\ pc' = "semantic"

\* C3: whenever the first execution returns an error, regenerate is called
\* exactly once, with the failing SQL text and the error text, and what it
\* returns is normalized and executed once; when the first execution succeeds
\* (also with zero rows) regenerate is never called.
C3_RepairExactlyOnce ==
    /\ [](nregen <= 1 /\ (nregen = 1 => nexec \in {1, 2}))
    /\ [](pc \in {"semantic", "compose", "fallback", "log"} /\ nexec = 1 => nregen = 0)
    /\ [][C3_Step]_vars

\* the repaired candidate, normalized, is about to be executed
C3_Witness ==
    /\ pc = "exec2" /\ nregen = 1 /\ nexec = 1
    /\ fixed.called /\ fixed.error_message # None
    /\ sql_text_used.v # <<>>

\* C4: if the completion call or the parsing of its output fails inside
\* classify, classify does not raise and returns exactly
\* {type: sql, reason: fallback}, the same value on every such failure.
C4_ClassifyDegradesToSql ==
    /\ raisedBy # "classify"
    /\ (pc = "routed" /\ completion.kind \in {"raise", "unparseable"}) =>
            route = [raised |-> FALSE, dict |-> TRUE, type |-> "sql", reason |-> "fallback"]

\* classify has returned after a completion that did not parse
C4_Witness == pc = "routed" /\ completion.kind = "unparseable" /\ route.reason = "fallback"

\* C10: _try_execute_sql never raises: it returns (rows, no error) or
\* (empty list, error message), so every execution error reaches answer() as
\* an error value.
C10_ExecuteNeverRaises ==
    /\ raisedBy # "execute"
    /\ sql_err # None => sql_rows = 0

\* the first execution failed and answer() holds the error as a value
C10_Witness == pc = "regenerate" /\ nexec = 1 /\ sql_err # None /\ raisedBy = "none"

----------------------------------------------------------------------------
(* Properties of the fallback chain (C5, C6, C7).                           *)

\* the employees the manager-name parameter of the generated query matches
Matched == EmployeesLike(db, Get(sql_params_used, MANAGER_NAME))

\* the named manager has no subordinate and manages a project with other members
ManagesProjectOnly(e) ==
    /\ ReportsOf(db, e) = {}
    /\ \E p \in Proj :
          /\ db.proj[p].manager_employee_id = e
          /\ db.proj[p].members \ {e} # {}

\* C5: given a manager name whose matching employee has no direct subordinate
\* but is the named manager of one project with other members, the resolver's
\* message comes from the indirect-inference state, not a "no direct reports"
\* message, whether the vector index is enabled or disabled.
C5_IndirectInferenceForProjectManager ==
    ( /\ pc = "log"
      /\ question.report
      /\ store
      /\ Matched # {}
      /\ \A e \in Matched : ManagesProjectOnly(e)
      /\ EmployeeHits(hits) \subseteq Matched )
    => resolved.msg.kind = "indirect"

\* C6: when the vector store is disabled, the semantic branch of answer() and
\* the semantic fallback state both yield nothing without raising, and for a
\* reporting question with zero SQL rows the fuzzy string state is still
\* attempted.
C6_FuzzyAttemptedWhenVectorDisabled ==
    ~vector.enabled =>
        /\ semantic_docs = 0
        /\ raisedBy # "semantic"
        /\ resolved.msg.kind \notin {"semantic_reports", "semantic_candidates"}
        /\ ( /\ pc \in {"log", "done"}
             /\ resolved # NotRun
             /\ question.report
             /\ TruthyVal(Get(sql_params_used, MANAGER_NAME)) )
           => "fuzzy" \in Range(resolved.trace)

\* C7 as stated: for a question that is not reporting-shaped no fallback state
\* is run and the composed answer is never replaced, even when the SQL result
\* is empty, whatever parameters the generated query carries.
C7_NoFallbackForOtherQuestions ==
    (pc \in {"log", "done"} /\ ~question.report /\ result.source # "offline"
        /\ raisedBy = "none")
    => (resolved.trace = <<>> /\ answer = Composed)

\* C7 as amended: for a question without "report" the exact-name and the
\* indirect-inference states are never run; and when the generated parameters
\* carry no non-empty manager_name, no fallback state is run and the composed
\* answer is kept.
C7_GateOnReportOrManagerName ==
    (pc \in {"log", "done"} /\ ~question.report /\ raisedBy = "none")
    => /\ "exact" \notin Range(resolved.trace)
       /\ "indirect" \notin Range(resolved.trace)
       /\ resolved.msg.kind \notin {"indirect", "exact_no_reports", "no_employee"}
       /\ ~TruthyVal(Get(sql_params_used, MANAGER_NAME)) =>
              (resolved.trace = <<>> /\ answer = Composed)

\* a question without "report" whose query found nothing keeps the composed answer
C7_Witness ==
    /\ pc = "done" /\ ~question.report
    /\ FallbackDue /\ resolved # NotRun
    /\ resolved.trace = <<>> /\ answer = Composed

----------------------------------------------------------------------------
(* Properties of the normaliser (C8, C9).                                   *)

\* the 0-based indices just after a LIKE or ILIKE operator of the text
OperatorEnds(sql) ==
    {j \in 0..Len(sql) :
        \E w \in {<<"l","i","k","e">>, <<"i","l","i","k","e">>} :
            /\ StartsWithAt(Lower(sql), w, j - Len(w))
            /\ BoundaryBefore(sql, j - Len(w))
            /\ BoundaryAfter(sql, j)}

\* the index of the first character at or after pos that is not white space
RECURSIVE SkipSpace(_, _)
SkipSpace(sql, pos) ==
    IF pos < Len(sql) /\ IsSpace(sql[pos + 1]) THEN SkipSpace(sql, pos + 1) ELSE pos

\* the parameters bound to a LIKE or ILIKE operator: operator, white space, :name
BoundParams(sql) ==
    {SubSeq(sql, SkipSpace(sql, j) + 2, NameEnd(sql, SkipSpace(sql, j) + 1)) :
        j \in {i \in OperatorEnds(sql) :
                 /\ SkipSpace(sql, i) < Len(sql)
                 /\ sql[SkipSpace(sql, i) + 1] = ":"
                 /\ NameEnd(sql, SkipSpace(sql, i) + 1) > SkipSpace(sql, i) + 1}}

\* C8: after normalization every parameter bound to a LIKE/ILIKE operator of
\* the SQL has a value that contains the wildcard marker '%', for every
\* occurrence of the operator in the text (string values of the mapping).
C8_BoundParamsCarryWildcards ==
    npc = "once" =>
        \A p \in BoundParams(nout1.sql) \cap DOMAIN nout1.params.m :
            IsStr(nout1.params.m[p]) => HasPercent(nout1.params.m[p].v)

\* C9: normalization is idempotent: a second pass over its own result changes
\* neither the SQL text nor any parameter value, and a value that already
\* contains '%' is never wrapped again.
C9_NormalizationIdempotent ==
    /\ npc = "twice" => nout2 = nout1
    /\ npc \in {"once", "twice"} =>
          \A p \in DOMAIN nparams.m :
              (IsStr(nparams.m[p]) /\ HasPercent(nparams.m[p].v))
                  => nout1.params.m[p] = nparams.m[p]

\* a second pass over a text with two operators and a value wrapped by the first
C9_Witness ==
    /\ npc = "twice"
    /\ Len(ScanLikeParams(nout1.sql, Lower(nout1.sql), 0)) = 2
    /\ P_NAME \in DOMAIN nparams.m
    /\ nparams.m[P_NAME] = StrVal(<<" ", "b", " ">>)
    /\ nout2.params.m[P_NAME] = StrVal(<<"%", "b", "%">>)

----------------------------------------------------------------------------
(* Properties of the SQL path and of the schema description (C11, C14, C15) *)

\* the statement is a SELECT: its first word, in any letter case
IsSelect(sql) ==
    /\ StartsWithAt(Lower(LStrip(sql)), SELECT, 0)
    /\ BoundaryAfter(LStrip(sql), Len(SELECT))

\* C11: the SQL path is read-only: no statement other than a SELECT is ever
\* executed against the store from generated SQL text, whatever text the
\* generator returns.
C11_OnlySelectExecuted ==
    [][(nexec' = nexec + 1 /\ sql_text_used.v # <<>>) => IsSelect(sql_text_used.v)]_vars

\* the description contains every table of the store, each with its columns and
\* foreign keys
FullSchema(schema, n) ==
    /\ ~schema.isNone
    /\ Len(schema.tables) = n
    /\ \A k \in 1..n :
          \E j \in 1..Len(schema.tables) :
              /\ schema.tables[j].name = k
              /\ schema.tables[j].columns = Table(k).columns
              /\ schema.tables[j].foreign_keys = Table(k).foreign_keys

\* C14: _schema_introspection returns a description that contains every table
\* of the store, each with its column names and its foreign keys, for a store
\* with any number of tables.
C14_SchemaDescribesEveryTable ==
    (pc # "start" /\ raisedBy # "introspect")
    => FullSchema(SchemaIntrospection(nTables), nTables)

\* C15: _generate_sql is never invoked with a partial or empty schema
\* description: if introspection cannot produce the full schema, the request
\* fails before any SQL is generated.
C15_NoGenerationOnPartialSchema ==
    (pc = "exec1" \/ raisedBy = "generate" \/ nexec >= 1)
    => (nTables >= 1 /\ FullSchema(SchemaIntrospection(nTables), nTables))

----------------------------------------------------------------------------
(* Properties of the log, of the except clause and of the offline handler   *)
(* (C16, C17, C18, C19, C20).                                               *)

\* C16: every question handed to answer() results in exactly one append to the
\* query log, recording the question, routing kind, SQL text and parameters
\* used, total item count and the final answer text; no existing record is
\* updated or deleted.
C16_OneLogRecordPerQuestion ==
    pc = "done" =>
        /\ Len(log) = 1
        /\ log[1] = [question |-> question, query_type |-> qtype,
                     sql |-> sql_text_used, parameters |-> sql_params_used,
                     result_count |-> sql_rows + semantic_docs, answer |-> answer]

\* C17: if a step of the dynamic pipeline (schema introspection, SQL generation
\* or repair, composition) raises an error that is not handled locally,
\* answer() returns the result of OfflineQueryService.answer for the same
\* question.
C17_UnhandledErrorGoesOffline ==
    /\ raisedBy # "none" => pc \in {"except", "done"}
    /\ (pc = "done" /\ raisedBy # "none") =>
          /\ result.source = "offline"
          /\ result \in {OfflineAnswer(question, storeOk) : storeOk \in BOOLEAN}
    /\ (pc = "done" /\ raisedBy = "none") => result.source = "dynamic"

\* composition raised and the offline handler answered the question
C17_Witness ==
    /\ pc = "done" /\ raisedBy = "compose"
    /\ result.source = "offline" /\ result.success

\* C18: OfflineQueryService.answer never raises: for every question, also with
\* unsupported phrasing and a failing store, it returns a response object, and
\* unsupported phrasing yields an explicit 'could not classify' response.
C18_OfflineNeverRaises ==
    (pc = "done" /\ result.source = "offline") =>
        /\ ~result.raised
        /\ question.offline = "unsupported" => ~result.success

\* C19: answer() always returns a structured answer object carrying a success
\* flag; success is false only when the offline handler was reached and could
\* not answer, and true whenever the pipeline completed.
C19_AlwaysStructuredAnswer ==
    pc = "done" =>
        /\ ~result.raised
        /\ result.source \in {"dynamic", "offline"}
        /\ ~result.success => (result.source = "offline" /\ question.offline = "unsupported")
        /\ result.source = "dynamic" => result.success

\* C20 as stated: when the SQL generator fails under sql or hybrid routing, the
\* SQL path yields an empty result set and the fallback chain is invoked, as
\* for a query that executed and found nothing.
C20_GeneratorFailureReachesFallback ==
    (pc = "done" /\ raisedBy = "generate") => (sql_rows = 0 /\ resolved # NotRun)

\* C20 as amended: when the SQL generator fails under sql or hybrid routing,
\* no SQL is executed, the fallback chain is not invoked and nothing is logged:
\* the exception reaches the except clause of answer(), which hands the
\* question to OfflineQueryService.answer.
C20_GeneratorFailureGoesOffline ==
    raisedBy = "generate" =>
        /\ qtype \in {"sql", "hybrid"}
        /\ pc \in {"except", "done"}
        /\ nexec = 0
        /\ resolved = NotRun
        /\ log = <<>>
        /\ pc = "done" => result.source = "offline"

\* the generator failed under hybrid routing and the offline handler returned
C20_Witness ==
    /\ pc = "done" /\ raisedBy = "generate" /\ qtype = "hybrid"
    /\ result.source = "offline" /\ ~result.raised

----------------------------------------------------------------------------
(* VectorEngine alone (src/vector_engine.py): upsert_all, batch by batch,   *)
(* and search, over a Chroma collection.                                    *)

BatchSize == 2

SkillDoc(k) == [type |-> "skill", id |-> k]

\* the documents upsert_all builds, in its order: employees, projects, skills
\* (a skill and an employee share the natural id "E1")
AllDocs == <<EmployeeDoc("E1"), EmployeeDoc("E2"), ProjectDoc("P1"), SkillDoc("E1")>>

\* the sub-sequence of seq at the positions keep
RECURSIVE Pick(_, _, _)
Pick(seq, keep, k) ==
    IF k > Len(seq) THEN <<>>
    ELSE (IF k \in keep THEN <<seq[k]>> ELSE <<>>) \o Pick(seq, keep, k + 1)

\* the entity sets of the store
EntitySets == {Pick(AllDocs, keep, 1) : keep \in SUBSET (1..Len(AllDocs))}

\* the composite key f"{type}:{natural_id}"
DocId(d) == <<d.type, d.id>>

\* what the embeddings API does: one vector per text, an error, or fewer vectors
EmbedOutcomes == {"ok", "error", "short"}

\* VectorEngine._embed_texts: the number of embeddings returned ([] on an error)
EmbedTexts(texts, outcome) ==
    CASE outcome = "ok" -> Len(texts)
      [] outcome = "short" -> Len(texts) - 1
      [] OTHER -> 0

\* the mutated upsert: every document is added as a new entry
CollectionAdd(coll, batch) == coll \o batch

\* Collection.upsert(ids, ...): an entry with the id is replaced, a new id is added
RECURSIVE CollectionUpsert(_, _)
CollectionUpsert(coll, batch) ==
    IF batch = <<>> THEN coll
    ELSE LET d == Head(batch)
             at == {k \in 1..Len(coll) : DocId(coll[k]) = DocId(d)}
         IN  CollectionUpsert(IF at = {} THEN Append(coll, d)
                              ELSE [k \in 1..Len(coll) |-> IF k \in at THEN d ELSE coll[k]],
                              Tail(batch))

\* lines 55-93: the guard, the four queries of the store and the empty case
UpsertStart(r) ==
    /\ upserts[r].pc = "idle"
    /\ \E storeOk \in BOOLEAN :
        upserts' = [upserts EXCEPT ![r] =
            IF ~vector.enabled THEN [@ EXCEPT !.pc = "returned", !.ret = 0]
            ELSE IF ~storeOk THEN [@ EXCEPT !.pc = "raised", !.failed = TRUE]
            ELSE IF entities = <<>> THEN [@ EXCEPT !.pc = "returned", !.ret = 0]
            ELSE [@ EXCEPT !.pc = "embed", !.ids = entities]]
    /\ UNCHANGED <<pc, question, dialect, vector, nTables, completion, route, qtype,
                   sql_text_used, sql_params_used, sql_rows, sql_err, fixed,
                   semantic_docs, answer, nexec, nregen, raisedBy, resolved, log, result,
                   resolverVars, normVars, syncVars, entities, collection, searched>>

\* lines 95-98: the embeddings of all documents, or return 0
UpsertEmbed(r) ==
    /\ upserts[r].pc = "embed"
    /\ \E outcome \in EmbedOutcomes :
        LET n == EmbedTexts(upserts[r].ids, outcome)
        IN  upserts' = [upserts EXCEPT ![r] =
                IF n = 0 \/ n # Len(upserts[r].ids)
                THEN [@ EXCEPT !.pc = "returned", !.ret = 0, !.failed = TRUE]
                ELSE [@ EXCEPT !.pc = "batch", !.i = 0, !.total = 0]]
    /\ UNCHANGED <<pc, question, dialect, vector, nTables, completion, route, qtype,
                   sql_text_used, sql_params_used, sql_rows, sql_err, fixed,
                   semantic_docs, answer, nexec, nregen, raisedBy, resolved, log, result,
                   resolverVars, normVars, syncVars, entities, collection, searched>>

\* lines 103-119: one round of the batch loop; after the last batch, lines 121-122
UpsertBatch(r) ==
    /\ upserts[r].pc = "batch"
    /\ LET u == upserts[r]
           last == IF u.i + BatchSize < Len(u.ids) THEN u.i + BatchSize ELSE Len(u.ids)
           b_docs == SubSeq(u.ids, u.i + 1, last)
       IN  \E ok \in BOOLEAN :
            LET total == IF ok THEN u.total + Len(b_docs) ELSE u.total
            IN  /\ collection' = IF ok THEN CollectionUpsert(collection, b_docs)
                                       ELSE collection
                /\ upserts' = [upserts EXCEPT ![r] =
                      [@ EXCEPT !.i = last, !.total = total,
                                !.failed = @ \/ ~ok,
                                !.overlapped = @ \/ \E q \in Runs \ {r} :
                                                        upserts[q].pc \in {"embed", "batch"},
                                !.pc = IF last >= Len(u.ids) THEN "returned" ELSE "batch",
                                !.ret = IF last >= Len(u.ids) THEN total ELSE -1]]
    /\ UNCHANGED <<pc, question, dialect, vector, nTables, completion, route, qtype,
                   sql_text_used, sql_params_used, sql_rows, sql_err, fixed,
                   semantic_docs, answer, nexec, nregen, raisedBy, resolved, log, result,
                   resolverVars, normVars, syncVars, entities, searched>>

\* what Collection.query does: the nearest documents, or an exception
QueryOutcomes == {"ok", "error"}

\* the first n elements of a sequence
Prefix(seq, n) == SubSeq(seq, 1, IF n < Len(seq) THEN n ELSE Len(seq))

\* the mutated search: the failure of the query is not caught
VectorSearchUncaught(enabled, coll, embed, query, top_k) ==
    IF ~enabled THEN [raised |-> FALSE, hits |-> <<>>]
    ELSE IF EmbedTexts(<<"query">>, embed) = 0 THEN [raised |-> FALSE, hits |-> <<>>]
    ELSE IF query = "error" THEN [raised |-> TRUE, hits |-> <<>>]
    ELSE [raised |-> FALSE, hits |-> Prefix(coll, top_k)]

\* VectorEngine.search (enabled is False exactly when the collection is None)
VectorSearch(enabled, coll, embed, query, top_k) ==
    IF ~enabled THEN [raised |-> FALSE, hits |-> <<>>]
    ELSE IF EmbedTexts(<<"query">>, embed) = 0 THEN [raised |-> FALSE, hits |-> <<>>]
    ELSE IF query = "error" THEN [raised |-> FALSE, hits |-> <<>>]
    ELSE [raised |-> FALSE, hits |-> Prefix(coll, top_k)]

\* one call of search(query, top_k)
SearchCall ==
    /\ ~searched.called
    /\ \E embed \in {"ok", "error"}, query \in QueryOutcomes :
        LET res == VectorSearch(vector.enabled, collection, embed, query, MaxHits)
        IN  searched' = [called |-> TRUE, raised |-> res.raised, hits |-> res.hits,
                         embed |-> embed, query |-> query]
    /\ UNCHANGED <<pc, question, dialect, vector, nTables, completion, route, qtype,
                   sql_text_used, sql_params_used, sql_rows, sql_err, fixed,
                   semantic_docs, answer, nexec, nregen, raisedBy, resolved, log, result,
                   resolverVars, normVars, syncVars, entities, collection, upserts>>

InitEngine ==
    /\ entities \in EntitySets
    /\ collection = <<>>
    /\ upserts = [r \in Runs |-> NoUpsert]
    /\ searched = NoSearch
    /\ vector \in VectorConfigs
    /\ question = CHOOSE q \in Questions : ~q.report /\ q.offline = "unsupported"
    /\ dialect = "sqlite"
    /\ nTables = 1
    /\ pc = "semantic"
    /\ InitLocals
    /\ ResolverIdle
    /\ NormIdle
    /\ SyncIdle

\* the call has returned or raised
Finished(r) == upserts[r].pc \in {"returned", "raised"}

\* two calls of upsert_all, one after the other, and one search at any time
NextEngine ==
    \/ \E r \in Runs : (\A q \in Runs : q < r => Finished(q)) /\ UpsertStart(r)
    \/ \E r \in Runs : UpsertEmbed(r)
    \/ \E r \in Runs : UpsertBatch(r)
    \/ SearchCall

SpecEngine == InitEngine /\ [][NextEngine]_vars

\* two requests call upsert_all at the same time (answer(), lines 914-921, each
\* with its own VectorEngine over the one persistent collection): the steps of
\* the two calls interleave in any order
NextConcurrent ==
    \/ \E r \in Runs : UpsertStart(r)
    \/ \E r \in Runs : UpsertEmbed(r)
    \/ \E r \in Runs : UpsertBatch(r)

SpecConcurrent == InitEngine /\ [][NextConcurrent]_vars

----------------------------------------------------------------------------
(* Properties of the vector engine (C12, C13).                              *)

\* the number of documents of the collection with the composite key of d
CountOf(d) == Cardinality({k \in 1..Len(collection) : DocId(collection[k]) = DocId(d)})

\* the collection holds exactly one document per entity of the store
OnePerEntity ==
    /\ Len(collection) = Len(entities)
    /\ \A k \in 1..Len(entities) : CountOf(entities[k]) = 1

\* C12 as stated: running upsert_all twice on an unchanged entity set yields
\* the same returned document count both times and leaves the index with
\* exactly one document per composite key type:natural_id.
C12_SameCountOnePerKey ==
    (vector.enabled /\ \A r \in Runs : upserts[r].pc = "returned")
    => (upserts[1].ret = upserts[2].ret /\ OnePerEntity)

\* C12 as amended: the index never holds two documents with one composite
\* key, and only documents of the store's entities; a run whose embedding
\* call and batch upserts all succeed returns the number of entities and
\* leaves exactly one document per entity (so two such runs return the same
\* count); a run in which one of them fails returns less.
C12_UpsertIdempotentWithoutFailures ==
    /\ \A k \in 1..Len(collection) : CountOf(collection[k]) = 1
    /\ Range(collection) \subseteq Range(entities)
    /\ \A r \in Runs :
          upserts[r].pc = "returned" =>
              /\ upserts[r].ret \in 0..Len(entities)
              /\ (vector.enabled /\ ~upserts[r].failed) =>
                    (upserts[r].ret = Len(entities) /\ OnePerEntity)
              /\ (upserts[r].failed /\ entities # <<>>) => upserts[r].ret < Len(entities)

\* two runs over four entities (two batches each) have returned the same count
C12_Witness ==
    /\ Len(entities) = 4
    /\ \A r \in Runs : upserts[r].pc = "returned" /\ ~upserts[r].failed
    /\ upserts[1].ret = 4 /\ upserts[2].ret = 4
    /\ Len(collection) = 4

\* C13: search returns an empty sequence and never raises when the index is
\* disabled or uninitialized, when embedding fails, or when the vector store
\* query fails.
C13_SearchDegradesToEmpty ==
    searched.called =>
        /\ ~searched.raised
        /\ (~vector.enabled \/ searched.embed = "error" \/ searched.query = "error")
              => searched.hits = <<>>

\* a search over a filled collection whose query failed
C13_Witness ==
    /\ searched.called /\ vector.enabled
    /\ searched.embed = "ok" /\ searched.query = "error"
    /\ collection # <<>>
    /\ searched.hits = <<>>

----------------------------------------------------------------------------
(* Properties of composition and of the fallback chain within answer()     *)
(* (C21, C24, C25).                                                         *)

\* C21: when answer composition fails, the request still completes with an
\* answer built from the rows and documents already retrieved; the retrieved
\* data is not discarded.
C21_ComposeFailureKeepsData ==
    (pc = "done" /\ raisedBy = "compose") =>
        /\ result.source = "dynamic"
        /\ result.success
        /\ answer # NoMsg

\* C24: the fallback chain runs only when the SQL path was attempted (routing
\* sql or hybrid) and returned zero rows: with routing semantic, or with at
\* least one SQL row, no fallback state is executed and the answer is the
\* composed one.
C24_FallbackOnlyAfterEmptySqlPath ==
    /\ resolved # NotRun => (qtype \in {"sql", "hybrid"} /\ nexec >= 1 /\ sql_rows = 0)
    /\ (pc \in {"log", "done"} /\ raisedBy = "none" /\ (qtype = "semantic" \/ sql_rows >= 1))
       => /\ resolved = NotRun
          /\ answer = Composed
          /\ \A k \in 1..Len(log) : log[k].answer = Composed

\* a reporting question whose query carried manager_name and returned a row
C24_Witness ==
    /\ pc = "done" /\ raisedBy = "none"
    /\ qtype = "sql" /\ sql_rows >= 1
    /\ question.report /\ TruthyVal(Get(sql_params_used, MANAGER_NAME))
    /\ resolved = NotRun /\ answer = Composed

\* C25: whenever the fallback chain produces a non-empty message, the answer
\* returned and logged by answer() is exactly that message, with no part of
\* the composed answer kept; when it produces none, the returned answer is
\* exactly the composed answer.
C25_FallbackMessageReplacesAnswer ==
    (pc \in {"log", "done"} /\ raisedBy = "none" /\ resolved # NotRun) =>
        /\ resolved.msg # NoMsg => answer = resolved.msg
        /\ resolved.msg = NoMsg => answer = Composed
        /\ \A k \in 1..Len(log) : log[k].answer = answer

\* the message of the semantic state was returned and logged
C25_Witness ==
    /\ pc = "done" /\ raisedBy = "none"
    /\ resolved.msg.kind = "semantic_reports"
    /\ answer = resolved.msg
    /\ Len(log) = 1 /\ log[1].answer = resolved.msg

----------------------------------------------------------------------------
(* Property of concurrent calls of upsert_all (C22).                        *)

\* C22: when two requests run upsert_all concurrently over the same unchanged
\* entity set, with their batch upserts interleaved in any order, the index
\* ends with exactly one document per composite key and the same content a
\* single run would produce.
C22_ConcurrentUpsertsConverge ==
    /\ \A k \in 1..Len(collection) : CountOf(collection[k]) = 1
    /\ Range(collection) \subseteq Range(entities)
    /\ \A r \in Runs :
          (vector.enabled /\ upserts[r].pc = "returned" /\ ~upserts[r].failed) =>
              /\ OnePerEntity
              /\ Range(collection) = Range(entities)
              /\ upserts[r].ret = Len(entities)

\* both calls have returned, each having upserted a batch while the other ran
C22_Witness ==
    /\ Len(entities) = 4
    /\ \A r \in Runs : /\ upserts[r].pc = "returned" /\ ~upserts[r].failed
                       /\ upserts[r].overlapped
    /\ Len(collection) = 4

----------------------------------------------------------------------------
(* Properties of the order and of the states of the fallback resolver       *)
(* (C23, C26, C27), over the resolver alone.                                *)

\* the place of a state in the order exact-name, semantic, fuzzy, indirect
StateRank(s) ==
    CASE s = "exact" -> 1
      [] s = "semantic" -> 2
      [] s = "fuzzy" -> 3
      [] OTHER -> 4

\* C23: the fallback resolver attempts its states strictly in the order
\* exact-name check, semantic candidate search, fuzzy string search, indirect
\* inference; in particular the fuzzy state is attempted before indirect
\* inference whenever the semantic state yields nothing.
C23_StatesInOrderFuzzyBeforeIndirect ==
    (pc = "log" /\ resolved # NotRun) =>
        LET t == resolved.trace
        IN  /\ \A i, j \in 1..Len(t) : i < j => StateRank(t[i]) < StateRank(t[j])
            /\ \A j \in 1..Len(t) :
                  t[j] = "indirect" => \E i \in 1..(j - 1) : t[i] = "fuzzy"

\* the matched employees that have subordinates, with their subordinates
MatchedReports == {pr \in Matched \X Emp : pr[2] \in ReportsOf(db, pr[1])}

\* C26: in the exact-name state, when one or more employees match the
\* manager-name parameter and at least one of them has subordinates, the
\* resolver's message reports those subordinates; it never states that no
\* direct reports are recorded for a matched employee who has subordinates.
C26_ExactNameReportsSubordinates ==
    (pc = "log" /\ question.report /\ store /\ MatchedReports # {}) =>
        /\ resolved.msg.kind \notin {"exact_no_reports", "semantic_candidates", "indirect"}
        /\ MatchedReports \subseteq resolved.msg.team

\* the employee candidates among the hits that have subordinates, with them
CandidateReports == {pr \in EmployeeHits(hits) \X Emp : pr[2] \in ReportsOf(db, pr[1])}

----------------------------------------------------------------------------
(* Properties of the team inferred by indirect inference (C28, C29).        *)

\* C28: the inferred team listed by indirect inference never contains a
\* candidate manager themselves, for every way a project or department is
\* discovered and with any number of candidates.
C28_TeamExcludesCandidates ==
    (pc = "log" /\ resolved.msg.kind = "indirect") =>
        \A pr \in resolved.msg.team : pr[2] \notin resolved.msg.cands

MgrName == Get(sql_params_used, MANAGER_NAME)

----------------------------------------------------------------------------
(* Property of a resolution that finds nothing (C30).                       *)

\* the generated query carries a manager_name parameter
HasMgrName == Truthy(sql_params_used) /\ MANAGER_NAME \in DOMAIN sql_params_used.m

\* no name match, no employee candidate from the index or from the fuzzy
\* extraction, and no member of a project or department to infer
NothingFound ==
    /\ Matched = {}
    /\ EmployeeHits(Search(vector.enabled, hits)) = {}
    /\ ~fuzzy.rf \/ fuzzy.hits = {}
    /\ \A x \in DOMAIN IndirectListing(db, vector.enabled, MgrName, hits) :
          IndirectListing(db, vector.enabled, MgrName, hits)[x] = 0

\* C30 as stated: if none of the four fallback states finds anything, the
\* resolver returns no message and the answer returned by answer() is the
\* orchestrator's own composed answer.
C30_NothingFoundKeepsComposedAnswer ==
    (pc = "log" /\ NothingFound) => (resolved.msg = NoMsg /\ answer = Composed)

\* C30 as amended: for a reporting question with a manager_name whose
\* exact-name query succeeds the resolver always returns a message, the
\* closing "No employee found whose name contains ..." when nothing is found,
\* and it replaces the composed answer; the resolver returns no message, and
\* the composed answer is kept, only when nothing is found and the question
\* has no "report", the parameters carry no manager_name or the store fails.
C30_ClosingMessageWhenNothingFound ==
    pc = "log" =>
        /\ (question.report /\ HasMgrName /\ store) =>
              /\ resolved.msg # NoMsg
              /\ NothingFound => resolved.msg = Msg("no_employee", {}, {})
              /\ answer = resolved.msg
        /\ (NothingFound /\ ~(question.report /\ HasMgrName /\ store)) =>
              (resolved.msg = NoMsg /\ answer = Composed)
        /\ resolved.msg = NoMsg => answer = Composed

\* nothing was found for "%jo%" and the closing message replaced the answer
C30_Witness ==
    /\ pc = "log" /\ question.report /\ HasMgrName /\ store /\ NothingFound
    /\ resolved.trace = <<"exact", "semantic", "indirect">>
    /\ resolved.msg.kind = "no_employee"
    /\ answer = resolved.msg

----------------------------------------------------------------------------
(* Properties of the order of the steps of answer() (C31, C32, C33).        *)

\* _compose_answer was called: it returned the answer or it raised
ComposeRan == answer # NoMsg \/ raisedBy = "compose"

\* C31 as stated: the composition step runs on every question, whatever was
\* gathered and whatever failed earlier in the SQL or semantic branch.
C31_ComposeAlwaysRuns == pc = "done" => ComposeRan

\* C31 as amended: the composition step runs on every question whose schema
\* introspection, routing, SQL generation and SQL repair return, whatever was
\* gathered and however often SQL execution or the semantic search failed; it
\* does not run when one of those four raises.
C31_ComposeRunsUnlessAStepRaises ==
    /\ raisedBy \in {"none", "introspect", "route", "generate", "regenerate", "compose"}
    /\ pc = "done" => (ComposeRan <=> raisedBy \in {"none", "compose"})
    /\ (pc \in {"fallback", "log"}) => ComposeRan

\* composition ran after two failed executions, with no row and no document
C31_Witness ==
    /\ pc = "done" /\ raisedBy = "none"
    /\ nexec = 2 /\ sql_err # None
    /\ sql_rows = 0 /\ semantic_docs = 0
    /\ answer # NoMsg

\* one step of answer() seen by the router
C32_Step ==
    \* the classification call is made from one place, before anything else ran
    /\ pc' = "classify" =>
            /\ pc = "route"
            /\ qtype = "unset" /\ route = NoRoute
            /\ sql_text_used = NoVal /\ nexec = 0 /\ nregen = 0 /\ semantic_docs = 0
    \* that place is reached once, from schema introspection
    /\ pc' = "route" => pc = "start"
    /\ pc = "route" => pc' = "classify"
    \* generation, execution, repair and semantic search come after its result
    /\ pc' \in {"generate", "exec1", "regenerate", "regenerated", "exec2", "semantic",
                "compose"} => (qtype' # "unset" /\ pc # "route" /\ pc # "start")
    \* the kind it gave is not changed afterwards
    /\ qtype # "unset" => qtype' = qtype

\* C32 as stated: classification runs exactly once per question, before any
\* SQL generation, SQL execution or semantic search, and is never repeated.
C32_ClassifiedExactlyOnce ==
    pc = "done" => (qtype # "unset" \/ raisedBy \in {"classify", "route"})

\* C32 as amended: classification runs at most once per question, exactly
\* once when schema introspection returns, before any SQL generation, SQL
\* execution or semantic search; it is never repeated, also not after a SQL
\* failure or repair.
C32_ClassifiedAtMostOnceAndFirst == [][C32_Step]_vars

\* the question was classified once and its query failed and was repaired
C32_Witness ==
    /\ pc = "done" /\ raisedBy = "none"
    /\ qtype = "hybrid" /\ nregen = 1 /\ nexec = 2

\* C33: the routing kind the orchestrator acts on is always one of sql,
\* semantic, hybrid, whatever structure the classification call returns, so
\* every question runs at least one of the SQL branch and the semantic branch.
C33_RoutingKindIsOneOfThree ==
    /\ qtype \in {"unset", "sql", "semantic", "hybrid"}
    /\ (pc = "compose" /\ raisedBy = "none") => (nexec >= 1 \/ qtype \in {"semantic", "hybrid"})

----------------------------------------------------------------------------
(* Property of the dialect rewrite (C34).                                   *)

\* C34: after the dialect rewrite, every text-matching operator in the SQL
\* has the dialect's form: on SQLite no ILIKE operator remains, and on every
\* other dialect no plain LIKE operator remains, for any number of
\* occurrences in any letter case.
C34_EveryOperatorInDialectForm ==
    npc \in {"once", "twice"} =>
        /\ DialectForm(nout1.sql, dialect)
        /\ Fold(nout1.sql) = Fold(nsql)
        /\ npc = "twice" => DialectForm(nout2.sql, dialect)

\* two plain LIKE operators in different letter cases, rewritten for PostgreSQL
C34_Witness ==
    /\ npc = "once" /\ dialect = "postgresql"
    /\ nsql = <<" ", "l", "i", "k", "e", " ", ":", "p",
                " ", "L", "I", "K", "E", " ", " ", ":", "p">>
    /\ nout1.sql = <<" ", "I", "L", "I", "K", "E", " ", ":", "p",
                     " ", "I", "L", "I", "K", "E", " ", " ", ":", "p">>

----------------------------------------------------------------------------
(* The data sync alone: the scheduler (src/scheduler.py), the upstream      *)
(* client (src/mendix_client.py) and sync_employees (src/sync_service.py).  *)
(* No question is being answered while these are looked at.                 *)

queryVars ==
    <<pc, question, dialect, vector, nTables, completion, route, qtype, sql_text_used,
      sql_params_used, sql_rows, sql_err, fixed, semantic_docs, answer, nexec, nregen,
      raisedBy, resolved, log, result, resolverVars, normVars, engineVars>>

QueryIdle ==
    /\ question = CHOOSE q \in Questions : ~q.report /\ q.offline = "unsupported"
    /\ dialect = "sqlite"
    /\ vector = CHOOSE v \in VectorConfigs : ~v.settings
    /\ nTables = 1
    /\ pc = "start"
    /\ InitLocals
    /\ ResolverIdle
    /\ NormIdle
    /\ EngineIdle

\* the interval firings and the calls of start() looked at
MaxFires == 3

MaxStarts == 2

\* add_job(..., max_instances=1)
MAX_INSTANCES == 1

\* no scheduler started, no fetch and no sync under way, an empty employees table
InitDataSync == QueryIdle /\ SyncIdle

\* start(), lines 35-52: the guard, add_job, scheduler.start(), is_running; then
\* line 56 calls sync_job in the calling thread
SchedulerStart ==
    /\ sched.caller \in {"idle", "raised", "returned"}
    /\ sched.starts < MaxStarts
    /\ \E ok \in BOOLEAN :
        sched' = IF sched.is_running
                 THEN [sched EXCEPT !.starts = @ + 1, !.caller = "returned"]
                 ELSE IF ~ok THEN [sched EXCEPT !.starts = @ + 1, !.caller = "raised"]
                 ELSE [sched EXCEPT !.starts = @ + 1, !.job = TRUE, !.is_running = TRUE,
                                    !.caller = "syncing"]
    /\ UNCHANGED <<queryVars, fetch, sync>>

\* line 56 returns: sync_job (19-31) catches what sync_all raises and closes
\* the session
InitialSyncEnd ==
    /\ sched.caller = "syncing"
    /\ sched' = [sched EXCEPT !.caller = "returned", !.runs = @ + 1]
    /\ UNCHANGED <<queryVars, fetch, sync>>

\* the interval trigger fires: the scheduler submits sync_job to its executor
\* unless max_instances instances of the job are running, then it skips the run
IntervalFire ==
    /\ sched.job
    /\ sched.fired < MaxFires
    /\ sched' = IF sched.instances < MAX_INSTANCES
                THEN [sched EXCEPT !.fired = @ + 1, !.instances = @ + 1]
                ELSE [sched EXCEPT !.fired = @ + 1, !.skipped = @ + 1]
    /\ UNCHANGED <<queryVars, fetch, sync>>

\* a run of sync_job submitted by the scheduler ends
IntervalSyncEnd ==
    /\ sched.instances > 0
    /\ sched' = [sched EXCEPT !.instances = @ - 1, !.runs = @ + 1]
    /\ UNCHANGED <<queryVars, fetch, sync>>

\* stop(), lines 62-71: shutdown(wait=False) leaves running jobs running; a
\* later start() begins again
SchedulerStop ==
    /\ sched.is_running
    /\ sched.caller \in {"returned"}
    /\ \E ok \in BOOLEAN :
        sched' = IF ok THEN [sched EXCEPT !.is_running = FALSE, !.job = FALSE,
                                          !.caller = "idle"]
                 ELSE sched
    /\ UNCHANGED <<queryVars, fetch, sync>>

NextScheduler ==
    \/ SchedulerStart
    \/ InitialSyncEnd
    \/ IntervalFire
    \/ IntervalSyncEnd
    \/ SchedulerStop

SpecScheduler == InitDataSync /\ [][NextScheduler]_vars

\* the runs of sync_job that are in progress
RunningSyncJobs == (IF sched.caller = "syncing" THEN 1 ELSE 0) + sched.instances

\* C35: two runs of the data sync job never overlap in time, counting the
\* interval-triggered runs of the scheduler and the initial run that start()
\* performs directly after starting the scheduler.
C35_SyncRunsNeverOverlap == RunningSyncJobs <= 1

----------------------------------------------------------------------------
(* The upstream client alone: one get_* call of MendixAPIClient, the        *)
(* attempts of _make_request under its retry decorator, and the sync of     *)
(* the entity type that asked for the records.                              *)

\* the endpoints of the get_* methods
Endpoints ==
    {"employee", "department", "goal", "form", "project", "skill", "employee-project",
     "employee-skill"}

\* what one attempt of _make_request raises: the four except clauses re-raise
Failures == {"timeout", "connection", "http", "other"}

\* the records of a response looked at
MaxRecords == 2

\* stop=stop_after_attempt(3)
MAX_ATTEMPTS == 3

StopAfterAttemptOneMore(attempt_number) == attempt_number >= MAX_ATTEMPTS + 1

StopAfterAttempt(attempt_number) == attempt_number >= MAX_ATTEMPTS

\* `return data or []`: a null body and an empty list both give the empty list
DataOrEmpty(response) == IF response <= 0 THEN 0 ELSE response

\* a sync_* method calls the client's get_* method of its entity type
GetCall ==
    /\ fetch.pc = "idle"
    /\ \E e \in Endpoints : fetch' = [fetch EXCEPT !.pc = "request", !.endpoint = e]
    /\ UNCHANGED <<queryVars, sched, sync>>

\* one attempt of _make_request (lines 29-69) that returns response.json():
\* a list of records, or null (response = -1 stays for a null body)
AttemptReturns ==
    /\ fetch.pc = "request"
    /\ \E n \in -1..MaxRecords :
        fetch' = [fetch EXCEPT !.pc = "fetched", !.attempts = Append(@, "ok"),
                               !.response = n]
    /\ UNCHANGED <<queryVars, sched, sync>>

\* one attempt that raises: the decorator (25-28) waits and calls again, or
\* gives up with RetryError once stop_after_attempt says so
AttemptRaises ==
    /\ fetch.pc = "request"
    /\ \E f \in Failures :
        fetch' = [fetch EXCEPT !.attempts = Append(@, f),
                               !.pc = IF StopAfterAttempt(Len(fetch.attempts) + 1)
                                      THEN "retry_error" ELSE "request"]
    /\ UNCHANGED <<queryVars, sched, sync>>

\* get_employees, lines 73-79, and the other get_* methods alike: `data or []`
\* after a response, [] from the except clause
GetReturn ==
    /\ fetch.pc \in {"fetched", "retry_error"}
    /\ fetch' = [fetch EXCEPT !.pc = "got",
                              !.data = IF fetch.pc = "fetched"
                                       THEN DataOrEmpty(fetch.response) ELSE 0]
    /\ UNCHANGED <<queryVars, sched, sync>>

\* the sync_* method that called: one pass of its loop per record, each
\* counted or skipped, then commit and return; the outer except returns 0
SyncReturns ==
    /\ fetch.pc = "got"
    /\ \E n \in 0..fetch.data :
        fetch' = [fetch EXCEPT !.pc = "done", !.records_synced = n]
    /\ UNCHANGED <<queryVars, sched, sync>>

NextClient ==
    \/ GetCall
    \/ AttemptReturns
    \/ AttemptRaises
    \/ GetReturn
    \/ SyncReturns

SpecClient == InitDataSync /\ [][NextClient]_vars

\* every attempt of the call failed and the decorator gave up
AllAttemptsFailed ==
    /\ fetch.pc \in {"retry_error", "got", "done"}
    /\ fetch.attempts # <<>>
    /\ \A i \in 1..Len(fetch.attempts) : fetch.attempts[i] \in Failures

\* C36: a fetch makes at most 3 request attempts; when all of them failed the
\* get_* method returns the empty list, and the sync of that entity type
\* completes with 0 records.
C36_ThreeAttemptsThenEmptyList ==
    /\ Len(fetch.attempts) <= 3
    /\ (AllAttemptsFailed /\ fetch.pc \in {"got", "done"}) => fetch.data = 0
    /\ (AllAttemptsFailed /\ fetch.pc = "done") => fetch.records_synced = 0

C36_Witness ==
    /\ fetch.pc = "done"
    /\ Len(fetch.attempts) = 3
    /\ AllAttemptsFailed
    /\ fetch.data = 0
    /\ fetch.records_synced = 0

----------------------------------------------------------------------------
(* sync_employees alone: the payload of get_employees, the session's new    *)
(* objects and the employees table, reduced to the employee_id column.      *)

\* the EmployeeID values of the records: missing or empty, blank, plain, padded
RawIds == {"", " ", "E1", "E1 ", "E2"}

\* the records of one payload and the runs looked at
MaxPayload == 3

MaxSyncRuns == 2

Payloads == UNION {[1..n -> RawIds] : n \in 0..MaxPayload}

\* str.strip() on the values of RawIds
StripId(raw) == CASE raw = " " -> "" [] raw = "E1 " -> "E1" [] OTHER -> raw

\* sessionmaker(autocommit=False, autoflush=False, bind=engine)
autoflush == FALSE

\* self.db.query(Employee).filter(Employee.employee_id == employee_id).first():
\* the stored rows; the session's new objects are seen only if the query
\* flushes them first
QueryFirst(table, pending, employee_id) ==
    \/ employee_id \in table
    \/ autoflush /\ \E i \in 1..Len(pending) : pending[i] = employee_id

\* employee_id is unique=True: the INSERTs of a flush violate it when two new
\* objects carry one id, or one carries a stored id
IntegrityError(table, pending) ==
    \/ \E i, j \in 1..Len(pending) : i # j /\ pending[i] = pending[j]
    \/ \E i \in 1..Len(pending) : pending[i] \in table

\* lines 44-49: a run begins with what get_employees returned
SyncEmployeesCall ==
    /\ sync.pc \in {"idle", "done"}
    /\ sync.runs < MaxSyncRuns
    /\ \E p \in Payloads :
        sync' = [sync EXCEPT !.pc = "loop", !.payload = p, !.pos = 0, !.pending = <<>>,
                             !.records_synced = 0, !.ret = -1]
    /\ UNCHANGED <<queryVars, sched, fetch>>

\* lines 51-113: one pass of the loop
SyncEmployeesRecord ==
    /\ sync.pc = "loop"
    /\ sync.pos < Len(sync.payload)
    /\ LET employee_id == StripId(sync.payload[sync.pos + 1])
       IN  sync' = IF employee_id = ""
                   THEN [sync EXCEPT !.pos = @ + 1]
                   ELSE IF QueryFirst(sync.table, sync.pending, employee_id)
                   THEN [sync EXCEPT !.pos = @ + 1, !.records_synced = @ + 1]
                   ELSE [sync EXCEPT !.pos = @ + 1, !.records_synced = @ + 1,
                                     !.pending = Append(@, employee_id)]
    /\ UNCHANGED <<queryVars, sched, fetch>>

\* lines 115-124: commit and return the count, or rollback and return 0
SyncEmployeesCommit ==
    /\ sync.pc = "loop"
    /\ sync.pos = Len(sync.payload)
    /\ sync' = IF IntegrityError(sync.table, sync.pending)
               THEN [sync EXCEPT !.pc = "done", !.pending = <<>>, !.ret = 0,
                                 !.runs = @ + 1]
               ELSE [sync EXCEPT !.pc = "done", !.pending = <<>>,
                                 !.table = @ \cup Range(sync.pending),
                                 !.ret = sync.records_synced, !.runs = @ + 1]
    /\ UNCHANGED <<queryVars, sched, fetch>>

NextSync ==
    \/ SyncEmployeesCall
    \/ SyncEmployeesRecord
    \/ SyncEmployeesCommit

SpecSync == InitDataSync /\ [][NextSync]_vars

\* the distinct non-empty ids of the payload of the run
PayloadIds == {StripId(sync.payload[i]) : i \in 1..Len(sync.payload)} \ {""}

\* C37: after a run of sync_employees every distinct non-empty EmployeeID of
\* its payload has its row in the employees table, and no id is ever inserted
\* a second time: a record whose id is stored, or was seen earlier in the same
\* payload, updates the row.
C37_OneRowPerPayloadId ==
    /\ sync.pc = "done" => PayloadIds \subseteq sync.table
    /\ \A i, j \in 1..Len(sync.pending) : i # j => sync.pending[i] # sync.pending[j]

====
